---- MODULE Spec2Model ----
(***************************************************************************)
(* Task-tree orchestration engine of Smart-AI-Agent-IDE, as run by app.py: *)
(* components/agent.py (Agent), components/node.py (Node),                 *)
(* components/attention_mechanism.py (AttentionMechanism),                 *)
(* components/memory.py and components/utils.py.                           *)
(*                                                                         *)
(* Texts are modelled by name.  What Python's json and re libraries answer *)
(* about a text (does it decode, what does a pattern match) is tabulated   *)
(* per text in OutputAttr; everything the repository's code does with      *)
(* those answers is modelled as the code does it.  A constraint string is  *)
(* a sequence of tokens, so that splitting and trimming are computed.      *)
(***************************************************************************)
EXTENDS Integers, Sequences, FiniteSets, TLC

\* ------------------------------------------------------------------------
\* Program constants
\* ------------------------------------------------------------------------
MAX_RETRIES == 3
GLOBAL_CONTEXT_SUMMARY_INTERVAL == 10
MAX_DEPTH == 5
STATUS_PENDING == "pending"
STATUS_RUNNING == "running"
STATUS_COMPLETED == "completed"
STATUS_FAILED == "failed"
STATUS_OVERRIDDEN == "overridden"

\* ------------------------------------------------------------------------
\* Bounds of the model
\* ------------------------------------------------------------------------
\* number of node ids that can be allocated (uuid4 values, never reused)
MaxNodes == 4
\* number of operations other than load_session in one behaviour
MaxOps == 3
\* number of generate_content calls of _execute_node in one behaviour
MaxCalls == 3

NoId == 0
NodeIds == 1..MaxNodes

\* ------------------------------------------------------------------------
\* Sequence helpers
\* ------------------------------------------------------------------------
Range(s) == {s[i] : i \in 1..Len(s)}

Contains(s, x) == \E i \in 1..Len(s) : s[i] = x

RECURSIVE RemoveFirst(_, _)
\* list.remove(x): drops the first occurrence of x
RemoveFirst(s, x) ==
    IF s = <<>> THEN <<>>
    ELSE IF Head(s) = x THEN Tail(s)
    ELSE <<Head(s)>> \o RemoveFirst(Tail(s), x)

NoDup(s) == \A i, j \in 1..Len(s) : i # j => s[i] # s[j]

\* dict.pop(k, None) on a dict modelled as a function
Pop(f, k) == [x \in (DOMAIN f) \ {k} |-> f[x]]

\* d[k] = v on a dict modelled as a function
Put(f, k, v) == [x \in (DOMAIN f) \cup {k} |-> IF x = k THEN v ELSE f[x]]

\* ------------------------------------------------------------------------
\* Error messages: the literal text of the f-string and its interpolations
\* ------------------------------------------------------------------------
Msg(text, n, value, out) == [text |-> text, n |-> n, value |-> value, out |-> out]
NoError == Msg("", 0, <<>>, "")

\* ------------------------------------------------------------------------
\* JSON values as returned by json.loads
\* ------------------------------------------------------------------------
\* a decoded value: its Python type, the keys of a dict, the entries of its
\* "subtasks" value (when that is a list), its "result" value, its size, and
\* the file names of its code-named string fields
JV(t, keys, subIsList, sub, res, n) ==
    [t |-> t, keys |-> keys, subIsList |-> subIsList, subtasks |-> sub,
     result |-> res, n |-> n, code |-> {}]
\* json.JSONDecodeError
JBad == JV("bad", {}, FALSE, <<>>, "", 0)
\* the {} that extract_json_from_text returns when nothing decodes
JEmpty == JV("dict", {}, FALSE, <<>>, "", 0)

\* an entry of a subtasks array
SubStr(d) == [t |-> "str", hasDesc |-> FALSE, desc |-> d]
SubDict(d) == [t |-> "dict", hasDesc |-> TRUE, desc |-> d]
SubOther == [t |-> "other", hasDesc |-> FALSE, desc |-> ""]

\* bool(value)
Truthy(j) ==
    CASE j.t = "dict" -> j.keys # {}
      [] j.t = "list" -> j.n > 0
      [] j.t = "number" -> j.n # 0
      [] OTHER -> FALSE

\* ------------------------------------------------------------------------
\* The texts the gateway can return
\* ------------------------------------------------------------------------
OutSub2 == "{\"subtasks\": [\"a\", \"b\"]}"
OutSub1 == "{\"subtasks\": [5, {\"task_description\": \"a\"}]}"
OutSubEmpty == "{\"subtasks\": []}"
OutResult == "{\"result\": \"x\"}"
OutRaw == "hi"
OutX == "x"
OutLong == "hello world!!!"
OutNumber == "42"
\* a fenced python block holding print(1); the fence marks are written F
OutCode == "Fpython print(1) F"
OutBlank == " "

\* per text: len(text); whether text.strip() is empty; json.loads(text); json.loads of
\* each fenced match of extract_json_from_text; json.loads of the text with
\* the fence lines removed; json.loads of the slice from the first { to the last }
\* ("none" when there is no such slice); the words of the model it contains
\* as substrings; the file names the patterns of extract_code_files find;
\* whether the pattern of _check_has_code matches; the file names that
\* Agent._extract_code_from_json_output derives (none for these texts)
Attr(len, blank, loads, fenced, clean, brace, words, files, fence) ==
    [len |-> len, blank |-> blank, loads |-> loads, fenced |-> fenced,
     clean |-> clean, brace |-> brace, words |-> words, files |-> files,
     fence |-> fence, json_files |-> {}]

JSub2 == JV("dict", {"subtasks"}, TRUE, <<SubStr("a"), SubStr("b")>>, "", 1)
JSub1 == JV("dict", {"subtasks"}, TRUE, <<SubOther, SubDict("a")>>, "", 1)
JSubEmpty == JV("dict", {"subtasks"}, TRUE, <<>>, "", 1)
JResult == JV("dict", {"result"}, FALSE, <<>>, "x", 1)
JNumber == JV("number", {}, FALSE, <<>>, "", 42)
JNone == JV("none", {}, FALSE, <<>>, "", 0)

OutputAttr ==
    (OutSub2 :> Attr(24, FALSE, JSub2, <<>>, JSub2, JSub2, {}, {}, FALSE)) @@
    (OutSub1 :> Attr(44, FALSE, JSub1, <<>>, JSub1, JSub1, {}, {}, FALSE)) @@
    (OutSubEmpty :> Attr(16, FALSE, JSubEmpty, <<>>, JSubEmpty, JSubEmpty, {}, {}, FALSE)) @@
    (OutResult :> Attr(15, FALSE, JResult, <<>>, JResult, JResult, {"x"}, {}, FALSE)) @@
    (OutRaw :> Attr(2, FALSE, JBad, <<>>, JBad, JNone, {}, {}, FALSE)) @@
    (OutX :> Attr(1, FALSE, JBad, <<>>, JBad, JNone, {"x"}, {}, FALSE)) @@
    (OutLong :> Attr(14, FALSE, JBad, <<>>, JBad, JNone, {}, {}, FALSE)) @@
    (OutNumber :> Attr(2, FALSE, JNumber, <<>>, JNumber, JNone, {}, {}, FALSE)) @@
    (OutCode :> Attr(22, FALSE, JBad, <<JBad>>, JBad, JNone, {}, {"code_block_0.py"}, TRUE)) @@
    (OutBlank :> Attr(1, TRUE, JBad, <<>>, JBad, JNone, {}, {}, FALSE)) @@
    ("" :> Attr(0, TRUE, JBad, <<>>, JBad, JNone, {}, {}, FALSE))

\* the texts the gateway returns in the model
Outputs == {OutSub2, OutSub1, OutSubEmpty, OutResult, OutRaw, OutX, OutNumber, OutCode, ""}

\* ------------------------------------------------------------------------
\* Constraint strings, as sequences of tokens (":" and " " are tokens)
\* ------------------------------------------------------------------------
CFormatJson == <<"format", ":", "json">>
CMax5 == <<"max_length", ":", " ", "5">>
CMax1 == <<"max_length", ":", "1">>
CMaxBad == <<"max_length", ":", "abc">>
CContainsX == <<"contains", ":", "x">>
CCodeTrue == <<"code", ":", "true">>
CStyle == <<"style", ":", "formal">>

\* int(value) for the numerals of the model; any other text is a ValueError
Numerals == ("1" :> 1) @@ ("5" :> 5) @@ ("10" :> 10)

RECURSIVE LStrip(_)
LStrip(s) == IF s # <<>> /\ Head(s) = " " THEN LStrip(Tail(s)) ELSE s

RECURSIVE RStrip(_)
RStrip(s) == IF s # <<>> /\ s[Len(s)] = " " THEN RStrip(SubSeq(s, 1, Len(s) - 1)) ELSE s

\* str.strip()
Strip(s) == RStrip(LStrip(s))

\* index of the first ":" of s, 0 when there is none
FirstColon(s) ==
    IF Contains(s, ":") THEN CHOOSE i \in 1..Len(s) : s[i] = ":" /\ \A j \in 1..(i - 1) : s[j] # ":"
    ELSE 0

\* constraint.split(":", 1) at the colon found at index i, and the strips
SplitAt(constraint, i) ==
    IF i # 0
    THEN [type |-> Strip(SubSeq(constraint, 1, i - 1)),
          value |-> Strip(SubSeq(constraint, i + 1, Len(constraint)))]
    ELSE [type |-> constraint, value |-> <<>>]

parse_constraint(constraint) == SplitAt(constraint, FirstColon(constraint))

\* ------------------------------------------------------------------------
\* Node and LocalMemory
\* ------------------------------------------------------------------------
\* LocalMemory.local_memory: the keys present and the value of each key the
\* engine uses; result is a text or (json = TRUE) the object decoded from
\* that text; code_files is the set of file names of the stored dict
NewMemory(task) ==
    [keys |-> IF task # "" THEN {"task"} ELSE {}, task |-> task,
     result |-> "", json |-> FALSE, code_files |-> {}, regeneration_guidance |-> ""]

\* Node.__init__
NewNode(id, parent_id, task_description, depth) ==
    [node_id |-> id, depth |-> depth, local_memory |-> NewMemory(task_description),
     parent_id |-> parent_id, child_ids |-> <<>>, status |-> STATUS_PENDING,
     output |-> "", error_message |-> NoError, task_description |-> task_description]

\* bool(node.retrieve_from_memory("result"))
HasResult(node) ==
    "result" \in node.local_memory.keys /\ (node.local_memory.json \/ node.local_memory.result # "")

\* bool(node.retrieve_from_memory("code_files"))
HasCodeFiles(node) ==
    "code_files" \in node.local_memory.keys /\ node.local_memory.code_files # {}

StoreResult(node, text, isJson) ==
    [node EXCEPT !.local_memory.keys = @ \cup {"result"},
                 !.local_memory.result = text, !.local_memory.json = isJson]

StoreCodeFiles(node, files) ==
    [node EXCEPT !.local_memory.keys = @ \cup {"code_files"}, !.local_memory.code_files = files]

\* Node.add_child
add_child(node, child_id) ==
    IF Contains(node.child_ids, child_id) THEN node
    ELSE [node EXCEPT !.child_ids = Append(@, child_id)]

\* ------------------------------------------------------------------------
\* AttentionMechanism: pure parts
\* ------------------------------------------------------------------------
\* d[k].append(x) unless x is in d[k] already
AppendNew(d, k, x) == IF Contains(d[k], x) THEN d ELSE [d EXCEPT ![k] = Append(@, x)]

\* d.setdefault(k, [])
WithEntry(d, k) == IF k \in DOMAIN d THEN d ELSE Put(d, k, <<>>)

\* the append made without either test
AddDependencyAlways(g, dependent_node_id, dependency_node_id) ==
    [g EXCEPT ![dependent_node_id] = Append(@, dependency_node_id)]

\* the second test of add_dependency, on the graph g that has the entry
AddDependencyTo(g, dependent_node_id, dependency_node_id) ==
    IF dependency_node_id # NoId THEN AppendNew(g, dependent_node_id, dependency_node_id) ELSE g

add_dependency(graph, dependent_node_id, dependency_node_id) ==
    AddDependencyTo(WithEntry(graph, dependent_node_id), dependent_node_id, dependency_node_id)

track_dependencies(graph, parent_node_id, current_node_id) ==
    add_dependency(graph, current_node_id, parent_node_id)

add_constraint(cons, node_id, constraint) ==
    AppendNew(WithEntry(cons, node_id), node_id, constraint)

get_constraints(cons, node_id) == IF node_id \in DOMAIN cons THEN cons[node_id] ELSE <<>>

\* "del l[i]" for a 0-based index i within the list
DelAt(l, i) == SubSeq(l, 1, i) \o SubSeq(l, i + 2, Len(l))

\* the guard of update_constraint and remove_constraint
InRange(cons, node_id, constraint_index) ==
    node_id \in DOMAIN cons /\ 0 <= constraint_index /\ constraint_index < Len(cons[node_id])

update_constraint(cons, node_id, constraint_index, new_constraint) ==
    IF InRange(cons, node_id, constraint_index)
    THEN [cons EXCEPT ![node_id][constraint_index + 1] = new_constraint]
    ELSE cons

remove_constraint(cons, node_id, constraint_index) ==
    IF InRange(cons, node_id, constraint_index)
    THEN [cons EXCEPT ![node_id] = DelAt(@, constraint_index)]
    ELSE cons

RECURSIVE PropagateOne(_, _, _)
\* the inner loop of propagate_constraints: the parent's constraints the
\* child does not have are added to the child
PropagateOne(cons, child_id, list) ==
    IF list = <<>> THEN cons
    ELSE PropagateOne(IF Contains(get_constraints(cons, child_id), Head(list)) THEN cons
                      ELSE add_constraint(cons, child_id, Head(list)),
                      child_id, Tail(list))

RECURSIVE PropagateAll(_, _, _)
\* the outer loop of propagate_constraints over the parent's child_ids
PropagateAll(cons, child_ids, list) ==
    IF child_ids = <<>> THEN cons
    ELSE PropagateAll(PropagateOne(cons, Head(child_ids), list), Tail(child_ids), list)

propagate_constraints(cons, table, parent_node_id) ==
    IF parent_node_id \in DOMAIN table
    THEN PropagateAll(cons, table[parent_node_id].child_ids, get_constraints(cons, parent_node_id))
    ELSE cons

\* the registry built by AttentionMechanism.__init__ and Agent.setup_agent
ConstraintCheckers == {<<"format">>, <<"contains">>, <<"max_length">>, <<"code">>}

\* the failure recorded as an override
FailAsOverridden(node, msg) == [node EXCEPT !.status = STATUS_OVERRIDDEN, !.error_message = msg]

\* the status set to failed without the message
FailWithoutMessage(node, msg) == [node EXCEPT !.status = STATUS_FAILED]

Fail(node, msg) == [node EXCEPT !.status = STATUS_FAILED, !.error_message = msg]

\* a true verdict that also clears the node's error message
PassedClearingError(node) == [ok |-> TRUE, node |-> [node EXCEPT !.error_message = NoError]]

\* what a checker returns: its verdict, and the node as it leaves it
Passed(node) == [ok |-> TRUE, node |-> node]
Violated(node, msg) == [ok |-> FALSE, node |-> Fail(node, msg)]

_check_json_format(value, node) ==
    IF OutputAttr[node.output].loads # JBad
    THEN Passed(node)
    ELSE Violated(node, Msg("Constraint violated: Output must be in JSON format. Output: ", 0, <<>>, node.output))

\* value in node.output, for a value of at most one word
_check_contains_word(value, node) ==
    IF value = <<>> \/ (Len(value) = 1 /\ value[1] \in OutputAttr[node.output].words)
    THEN Passed(node)
    ELSE Violated(node, Msg("Constraint violated: Output must contain ", 0, value, node.output))

\* int(constraint_value) raises ValueError for a value that is no numeral
IsNumeral(value) == Len(value) = 1 /\ value[1] \in DOMAIN Numerals

\* the length test made with < in place of <=
_check_max_length_strict(value, node) ==
    IF IsNumeral(value)
    THEN IF OutputAttr[node.output].len < Numerals[value[1]]
         THEN Passed(node)
         ELSE Violated(node, Msg("Constraint violated: Output must be no more than ", Numerals[value[1]], <<>>, node.output))
    ELSE Violated(node, Msg("Constraint violated: Invalid max length value ", 0, value, ""))

_check_max_length(value, node) ==
    IF IsNumeral(value)
    THEN IF OutputAttr[node.output].len <= Numerals[value[1]]
         THEN Passed(node)
         ELSE Violated(node, Msg("Constraint violated: Output must be no more than ", Numerals[value[1]], <<>>, node.output))
    ELSE Violated(node, Msg("Constraint violated: Invalid max length value ", 0, value, ""))

_check_has_code(value, node) ==
    IF ~OutputAttr[node.output].fence
    THEN Violated(node, Msg("Constraint violated: Output must contain code blocks. No code blocks found.", 0, <<>>, ""))
    ELSE Passed(node)

\* checker(value, node) for a registered type
RunChecker(type, value, node) ==
    CASE type = <<"format">> -> _check_json_format(value, node)
      [] type = <<"contains">> -> _check_contains_word(value, node)
      [] type = <<"max_length">> -> _check_max_length(value, node)
      [] type = <<"code">> -> _check_has_code(value, node)

RECURSIVE CheckFrom(_, _, _, _)
\* the loop body without the early "return False"
AfterCheckerNoReturn(list, i, r, invoked) == CheckFrom(list, i + 1, r.node, invoked)

\* the body of the loop of check_constraints once checker(value, node) has
\* returned r for the constraint at index i
AfterChecker(list, i, r, invoked) ==
    IF ~r.ok THEN [ok |-> FALSE, node |-> r.node, invoked |-> invoked]
    ELSE CheckFrom(list, i + 1, r.node, invoked)

\* the loop body failing the node for a type without a checker
CheckOneUnknownFails(list, i, parsed_constraint, node, invoked) ==
    IF parsed_constraint.type \in ConstraintCheckers
    THEN AfterChecker(list, i, RunChecker(parsed_constraint.type, parsed_constraint.value, node),
                      Append(invoked, i))
    ELSE [ok |-> FALSE, node |-> Fail(node, Msg("Constraint violated: no checker", 0, <<>>, "")),
          invoked |-> invoked]

\* the body of the loop of check_constraints for the parsed constraint at i
CheckOne(list, i, parsed_constraint, node, invoked) ==
    IF parsed_constraint.type \in ConstraintCheckers
    THEN AfterChecker(list, i, RunChecker(parsed_constraint.type, parsed_constraint.value, node),
                      Append(invoked, i))
    ELSE CheckFrom(list, i + 1, node, invoked)

\* the loop of check_constraints from index i on; invoked lists the indices
\* of the constraints whose checker has been called
CheckFrom(list, i, node, invoked) ==
    IF i > Len(list) THEN [ok |-> TRUE, node |-> node, invoked |-> invoked]
    ELSE CheckOne(list, i, parse_constraint(list[i]), node, invoked)

check_constraints(cons, node) == CheckFrom(get_constraints(cons, node.node_id), 1, node, <<>>)

\* the loop of remove_node over the remaining dependency lists
Scrub(g, node_id) == [d \in DOMAIN g |-> RemoveFirst(g[d], node_id)]

remove_node(tracker, node_id) ==
    [dependency_graph |-> Scrub(Pop(tracker.dependency_graph, node_id), node_id),
     constraints |-> Pop(tracker.constraints, node_id)]

\* ------------------------------------------------------------------------
\* Output processing (components/utils.py, components/node.py)
\* ------------------------------------------------------------------------
RECURSIVE FirstDecoded(_)
\* the first fenced match that decodes, JBad when none does
FirstDecoded(fenced) ==
    IF fenced = <<>> THEN JBad
    ELSE IF Head(fenced) # JBad THEN Head(fenced)
    ELSE FirstDecoded(Tail(fenced))

\* extract_json_from_text on the library's answers a for the text, first
\* being the first fenced match that decodes
ExtractFrom(a, first) ==
    IF first # JBad THEN first
    ELSE IF a.clean # JBad THEN a.clean
    ELSE IF a.brace # JNone /\ a.brace # JBad THEN a.brace
    ELSE JEmpty

extract_json_from_text(text) == ExtractFrom(OutputAttr[text], FirstDecoded(OutputAttr[text].fenced))

\* Node.extract_code_files: the names found in the output, and those in memory
extract_code_files(node) ==
    OutputAttr[node.output].files \cup
        (IF "code_files" \in node.local_memory.keys THEN node.local_memory.code_files ELSE {})

\* the update of the "code_files" entry by new files, if there are any
UpdateCodeFiles(node, files) ==
    IF files # {} THEN StoreCodeFiles(node, node.local_memory.code_files \cup files) ELSE node

\* Node._extract_code_from_json
_extract_code_from_json(node, json_data) ==
    IF Truthy(json_data) THEN UpdateCodeFiles(node, json_data.code) ELSE node

\* Agent._extract_code_from_json_output
_extract_code_from_json_output(node) == UpdateCodeFiles(node, OutputAttr[node.output].json_files)

SetNode(w, id, node) == [w EXCEPT !.node_lookup[id] = node]

\* Agent.create_child_node on the world w = (node table, dependency graph,
\* next fresh id)
create_child_node(w, parent_id, task_description, depth) ==
    [node_lookup |-> Put([w.node_lookup EXCEPT ![parent_id] = add_child(@, w.next_id)],
                         w.next_id, NewNode(w.next_id, parent_id, task_description, depth)),
     dependency_graph |-> track_dependencies(w.dependency_graph, parent_id, w.next_id),
     next_id |-> w.next_id + 1]

\* Node._create_child_node giving the child its parent's depth
_create_child_node_same_depth(w, id, task_description) ==
    create_child_node(w, id, task_description, w.node_lookup[id].depth)

\* Node._create_child_node
_create_child_node(w, id, task_description) ==
    create_child_node(w, id, task_description, w.node_lookup[id].depth + 1)

\* the test creating children for the string entries only
IsStringSubtask(subtask) == subtask.t = "str"

\* the test on one entry of parsed_output["subtasks"]
IsSubtask(subtask) == subtask.t = "str" \/ (subtask.t = "dict" /\ subtask.hasDesc)

RECURSIVE CreateSubtasks(_, _, _)
\* the loop over parsed_output["subtasks"]
CreateSubtasks(w, id, subtasks) ==
    IF subtasks = <<>> THEN w
    ELSE IF IsSubtask(Head(subtasks))
    THEN CreateSubtasks(_create_child_node(w, id, Head(subtasks).desc), id, Tail(subtasks))
    ELSE CreateSubtasks(w, id, Tail(subtasks))

\* whether process_llm_output ends in its except branch for a decoded value:
\* "subtasks" in parsed_output raises TypeError on a number
RaisesOn(parsed_output) == Truthy(parsed_output) /\ parsed_output.t = "number"

\* process_llm_output after the subtasks loop
AfterSubtasks(w, id, parsed_output) ==
    SetNode(w, id, _extract_code_from_json(w.node_lookup[id], parsed_output))

\* process_llm_output from "if parsed_output:" on; no_files: code_files is empty
ProcessParsed(w, id, llm_output, no_files, parsed_output) ==
    IF Truthy(parsed_output)
    THEN IF RaisesOn(parsed_output)
         THEN SetNode(w, id, Fail(w.node_lookup[id],
                                  Msg("Error processing LLM output: ", 0, <<>>,
                                      "argument of type 'int' is not iterable")))
         ELSE IF "subtasks" \in parsed_output.keys /\ parsed_output.subIsList
         THEN AfterSubtasks(CreateSubtasks(w, id, parsed_output.subtasks), id, parsed_output)
         ELSE IF "result" \in parsed_output.keys
         THEN SetNode(w, id, _extract_code_from_json(
                                 StoreResult(w.node_lookup[id], parsed_output.result, FALSE),
                                 parsed_output))
         ELSE SetNode(w, id, _extract_code_from_json(
                                 StoreResult(w.node_lookup[id], llm_output, TRUE), parsed_output))
    ELSE IF no_files
         THEN SetNode(w, id, StoreResult(w.node_lookup[id], llm_output, FALSE))
         ELSE w

\* process_llm_output once extract_code_files has returned code_files
ProcessFiles(w, id, llm_output, code_files) ==
    ProcessParsed(IF code_files # {}
                  THEN SetNode(w, id, StoreCodeFiles(w.node_lookup[id], code_files))
                  ELSE w,
                  id, llm_output, code_files = {}, extract_json_from_text(llm_output))

\* Node.process_llm_output for node id of world w
process_llm_output(w, id, llm_output) ==
    ProcessFiles(w, id, llm_output, extract_code_files(w.node_lookup[id]))

ProcessRaises(llm_output) == RaisesOn(extract_json_from_text(llm_output))

\* number of ids the subtasks loop allocates for a decoded value
ChildrenIn(parsed_output) ==
    IF Truthy(parsed_output) /\ parsed_output.t = "dict"
       /\ "subtasks" \in parsed_output.keys /\ parsed_output.subIsList
    THEN Cardinality({i \in 1..Len(parsed_output.subtasks) : IsSubtask(parsed_output.subtasks[i])})
    ELSE 0

\* number of ids process_llm_output allocates for a text
ChildrenOf(llm_output) == ChildrenIn(extract_json_from_text(llm_output))

\* ------------------------------------------------------------------------
\* Deletion (components/agent.py)
\* ------------------------------------------------------------------------
\* delete_node_and_children without its call of remove_node
RemoveFromTableOnly(st, node_id) ==
    [node_lookup |-> Pop(st.node_lookup, node_id), tracker |-> st.tracker]

\* the last two lines of delete_node_and_children
RemoveSelf(st, node_id) ==
    [node_lookup |-> Pop(st.node_lookup, node_id), tracker |-> remove_node(st.tracker, node_id)]

\* the loop over node.child_ids without the recursive calls
KeepChildren(st, ids) == st

RECURSIVE DeleteChildren(_, _)
\* the loop over node.child_ids, on st = (node table, tracker maps), with
\* the recursive call for each child that is in the table
DeleteChildren(st, ids) ==
    IF ids = <<>> THEN st
    ELSE IF Head(ids) \in DOMAIN st.node_lookup
         THEN DeleteChildren(RemoveSelf(DeleteChildren(st, st.node_lookup[Head(ids)].child_ids),
                                        Head(ids)),
                             Tail(ids))
         ELSE DeleteChildren(st, Tail(ids))

delete_node_and_children(st, node) == RemoveSelf(DeleteChildren(st, node.child_ids), node.node_id)

\* ------------------------------------------------------------------------
\* State
\* ------------------------------------------------------------------------
VARIABLES
    node_lookup,        \* st.session_state.node_lookup: id -> Node
    dependency_graph,   \* AttentionMechanism.dependency_graph
    constraints,        \* AttentionMechanism.constraints
    global_context,     \* GlobalMemory.global_context, as a sequence of lines
    execution_count,    \* Agent.execution_count
    summary_interval,   \* Agent.global_context_summary_interval
    max_depth,          \* Agent.max_depth
    root_node_id,       \* st.session_state.root_node_id (NoId: not set)
    next_id,            \* the next fresh node id
    file,               \* the session document on disk (NoFile: none)
    pc,                 \* where the engine is: idle, or blocked in a gateway call
    cur,                \* the node _execute_node is executing
    attempt,            \* the loop variable of _execute_node
    calls,              \* generate_content calls of the current/last _execute_node loop
    sleeps,             \* time.sleep calls of the current/last _execute_node
    trace,              \* per attempt of the current/last _execute_node: how it ended, whether
                        \* process_llm_output ran without failing, how many children it created
    summarized,         \* summarize_node calls of the current/last _execute_node
    checked,            \* the last check_constraints call: node, its list, its output, the
                        \* indices whose checker was invoked, the result, the message left
    ops,                \* number of operations other than load_session started so far
    requests,           \* number of generate_content calls _execute_node has made so far
    compressions,       \* number of _summarize_global_context calls so far
    steady,             \* the interval is the one in force when the counter was 0, and the
                        \* counter was never loaded from a file
    op,                 \* the operation last started: name, node, ids it deleted
    raised,             \* whether that operation raised to its caller
    shared_data,        \* GlobalMemory.shared_data
    disk,               \* the memory documents on disk: global_memory.json (at NoId) and
                        \* node_memory/<id>.json
    returned            \* what the last save_to_disk or load_from_disk returned

vars == <<node_lookup, dependency_graph, constraints, global_context, execution_count,
          summary_interval, root_node_id, next_id, file, pc, cur, attempt, calls,
          sleeps, trace, summarized, checked, ops, requests, op, raised, max_depth,
          compressions, steady, shared_data, disk, returned>>

NoFile == [exists |-> FALSE]
EmptyMap == [x \in {} |-> <<>>]

Line(node_id, status, kind) == [node |-> node_id, status |-> status, kind |-> kind]
\* the context Agent.__init__ is given
InitialContext == <<Line(NoId, "", "initial")>>
\* the context after _summarize_global_context stored a "summary" value that
\* is not a string (null, a number, a list, an object)
NonStringContext == <<Line(NoId, "", "summary that is not a string")>>

\* "\n\n".join(prompt) of build_prompt raises TypeError on a context that is
\* not a string
build_prompt_raises(context) == context = NonStringContext

NoCheck == [node |-> NoId, list |-> <<>>, output |-> "", invoked |-> <<>>, ok |-> TRUE,
            error_message |-> NoError]

\* the documents of GlobalMemory (NoId) and of the LocalMemory of each node
Documents == {NoId} \cup NodeIds
\* no file; a file json.load fails on; a file holding the dumped data
Missing == [kind |-> "missing"]
Corrupt == [kind |-> "corrupt"]
Dumped(data) == [kind |-> "json", data |-> data]

\* save_to_disk: open(filename, "w") and json.dump; io_error: the write fails
\* after the file was opened, the except branch returns False
save_to_disk(data, io_error) ==
    IF io_error THEN [document |-> Corrupt, returned |-> FALSE]
    ELSE [document |-> Dumped(data), returned |-> TRUE]

\* load_from_disk treating a missing document as an empty one
load_missing_as_empty(memory, document, empty) ==
    IF document.kind = "json" THEN [memory |-> document.data, returned |-> TRUE]
    ELSE [memory |-> empty, returned |-> document.kind = "missing"]

\* load_from_disk of either class: False for a missing file, False from the
\* except branch when json.load fails, else the memory is replaced by the
\* data; empty is what data.get(..., default) gives for absent keys
load_from_disk(memory, document, empty) ==
    IF document.kind = "missing" THEN [memory |-> memory, returned |-> FALSE]
    ELSE IF document.kind = "corrupt" THEN [memory |-> memory, returned |-> FALSE]
    ELSE [memory |-> document.data, returned |-> TRUE]

Op(name, node_id, removed) == [name |-> name, node |-> node_id, removed |-> removed]

\* the state after Agent(...) and setup_agent() in app.py
Init ==
    /\ node_lookup = EmptyMap
    /\ dependency_graph = EmptyMap
    /\ constraints = EmptyMap
    /\ global_context = InitialContext
    /\ execution_count = 0
    /\ summary_interval = GLOBAL_CONTEXT_SUMMARY_INTERVAL
    /\ root_node_id = NoId
    /\ next_id = 1
    /\ file = NoFile
    /\ pc = "idle"
    /\ cur = NoId
    /\ attempt = 0
    /\ calls = 0
    /\ sleeps = 0
    /\ trace = <<>>
    /\ summarized = 0
    /\ checked = NoCheck
    /\ ops = 0
    /\ requests = 0
    /\ max_depth = MAX_DEPTH
    /\ compressions = 0
    /\ steady = TRUE
    /\ shared_data = EmptyMap
    /\ disk = [d \in Documents |-> Missing]
    /\ returned = FALSE
    /\ op = Op("init", NoId, {})
    /\ raised = FALSE

\* a caller starts an operation that writes the tree, the settings or the
\* session file
Start(name, node_id, removed) ==
    /\ ops < MaxOps
    /\ ops' = ops + 1
    /\ op' = Op(name, node_id, removed)
    /\ UNCHANGED <<requests, compressions, shared_data, disk, returned>>

\* a caller starts load_session; loads are not counted
Persist(name) ==
    /\ op' = Op(name, NoId, {})
    /\ UNCHANGED <<ops, requests, compressions, shared_data, disk, returned>>

World == [node_lookup |-> node_lookup, dependency_graph |-> dependency_graph, next_id |-> next_id]

\* the first lines of _execute_node: status running, prompt built (or
\* build_prompt raises and _execute_node ends there), loop entered
BeginExecute(table, id) ==
    /\ node_lookup' = [table EXCEPT ![id].status = STATUS_RUNNING]
    /\ raised' = build_prompt_raises(global_context)
    /\ pc' = IF build_prompt_raises(global_context) THEN "idle" ELSE "generate"
    /\ cur' = id
    /\ attempt' = 0
    /\ calls' = 0
    /\ sleeps' = 0
    /\ trace' = <<>>
    /\ summarized' = 0
    /\ checked' = NoCheck

\* ------------------------------------------------------------------------
\* Inputs
\* ------------------------------------------------------------------------
\* the initial_constraints a caller passes to run
InitialConstraintLists ==
    {<<>>, <<CMax5, CContainsX>>, <<CStyle, CFormatJson>>}

\* what generate_content does: raise, or return a text
Responses == {[throw |-> TRUE, text |-> ""]} \cup {[throw |-> FALSE, text |-> t] : t \in Outputs}

\* what the gateway answers to a summarization prompt: raises; a text that
\* is not JSON; an object with the expected keys; an object without them;
\* JSON that is not an object
SummaryResponses == {"throw", "not_json", "ok", "no_keys", "non_dict"}

\* what it answers to the prompt of _summarize_global_context: the same, or
\* an object whose "summary" is not a string
ContextResponses == SummaryResponses \cup {"non_string"}

\* the values of the summary-interval slider used in the model
Intervals == {1, 2}

\* the values of the max-depth slider used in the model
Depths == {1}

\* ------------------------------------------------------------------------
\* Operations
\* ------------------------------------------------------------------------
RECURSIVE AddConstraints(_, _, _)
\* the loop of create_root_node over initial_constraints
AddConstraints(cons, node_id, list) ==
    IF list = <<>> THEN cons
    ELSE AddConstraints(add_constraint(cons, node_id, Head(list)), node_id, Tail(list))

\* Agent.run: reset_agent, create_root_node, then agentFlow("execute", root)
Run(initial_constraints) ==
    /\ pc = "idle"
    /\ next_id <= MaxNodes
    /\ BeginExecute((next_id :> NewNode(next_id, NoId, "root", 0)), next_id)
    /\ constraints' = AddConstraints(constraints, next_id, initial_constraints)
    /\ dependency_graph' = track_dependencies(dependency_graph, NoId, next_id)
    /\ root_node_id' = next_id
    /\ next_id' = next_id + 1
    /\ Start("run", next_id, {})
    /\ UNCHANGED <<global_context, execution_count, summary_interval, max_depth, steady, file>>

\* Agent.reset_agent, as called by the "New Task" button
ResetAgent ==
    /\ pc = "idle"
    /\ node_lookup' = EmptyMap
    /\ root_node_id' = NoId
    /\ Start("reset", NoId, {})
    /\ raised' = FALSE
    /\ UNCHANGED <<dependency_graph, constraints, global_context, execution_count,
                   summary_interval, max_depth, steady, next_id, file, pc, cur, attempt, calls, sleeps,
                   trace, summarized, checked>>

\* agentFlow("execute", node); the interface offers it for pending nodes
Execute(id) ==
    /\ pc = "idle"
    /\ id \in DOMAIN node_lookup
    /\ node_lookup[id].status = STATUS_PENDING
    /\ BeginExecute(node_lookup, id)
    /\ Start("execute", id, {})
    /\ UNCHANGED <<dependency_graph, constraints, global_context, execution_count,
                   summary_interval, max_depth, steady, root_node_id, next_id, file>>

\* handle_node_retryable_error giving up one attempt early
handle_error_one_attempt_early(node, att, error) ==
    IF att < MAX_RETRIES - 2
    THEN [stop |-> FALSE, slept |-> 1,
          node |-> [node EXCEPT !.error_message = Msg("Error (attempt ", att + 1, <<>>, error)]]
    ELSE [stop |-> TRUE, slept |-> 0,
          node |-> Fail(node, Msg("Max retries reached. Last error: ", 0, <<>>, error))]

\* handle_node_retryable_error sleeping before it gives up as well
handle_error_always_sleeps(node, att, error) ==
    IF att < MAX_RETRIES - 1
    THEN [stop |-> FALSE, slept |-> 1,
          node |-> [node EXCEPT !.error_message = Msg("Error (attempt ", att + 1, <<>>, error)]]
    ELSE [stop |-> TRUE, slept |-> 1,
          node |-> Fail(node, Msg("Max retries reached. Last error: ", 0, <<>>, error))]

\* handle_node_retryable_error
handle_node_retryable_error(node, att, error) ==
    IF att < MAX_RETRIES - 1
    THEN [stop |-> FALSE, slept |-> 1,
          node |-> [node EXCEPT !.error_message = Msg("Error (attempt ", att + 1, <<>>, error)]]
    ELSE [stop |-> TRUE, slept |-> 0,
          node |-> Fail(node, Msg("Max retries reached. Last error: ", 0, <<>>, error))]

\* Agent._process_code_in_output
_process_code_in_output(node) == UpdateCodeFiles(node, extract_code_files(node))

\* Complete without its test of the status
CompleteAnyStatus(n) ==
    [node |-> [n EXCEPT !.status = STATUS_COMPLETED], summarize |-> n.child_ids = <<>>]

\* the completion calling summarize_node for a node with children too
CompleteAlwaysSummarizes(n) ==
    IF n.status = STATUS_RUNNING
    THEN [node |-> [n EXCEPT !.status = STATUS_COMPLETED], summarize |-> TRUE]
    ELSE [node |-> n, summarize |-> FALSE]

\* the last lines of _execute_node, for the node n that
\* _process_code_in_output has left: the node, and whether summarize_node
\* is called
Complete(n) ==
    IF n.status = STATUS_RUNNING
    THEN [node |-> [n EXCEPT !.status = STATUS_COMPLETED], summarize |-> n.child_ids = <<>>]
    ELSE [node |-> n, summarize |-> FALSE]

\* the end of the retry loop calling summarize_node for the node it fails
AfterLoopSummarizesFailed(node, success) ==
    IF ~success /\ node.status # STATUS_FAILED
    THEN [node |-> Fail(node, Msg("Failed to process LLM output after multiple attempts", 0, <<>>, "")),
          summarize |-> TRUE]
    ELSE IF success
    THEN Complete(_process_code_in_output(node))
    ELSE [node |-> node, summarize |-> FALSE]

\* _execute_node after the retry loop
AfterLoop(node, success) ==
    IF ~success /\ node.status # STATUS_FAILED
    THEN [node |-> Fail(node, Msg("Failed to process LLM output after multiple attempts", 0, <<>>, "")),
          summarize |-> FALSE]
    ELSE IF success
    THEN Complete(_process_code_in_output(node))
    ELSE [node |-> node, summarize |-> FALSE]

\* "if node.child_ids or result or code_files"
Found(node) == node.child_ids # <<>> \/ HasResult(node) \/ HasCodeFiles(node)

\* what one pass through the try block leaves: the world, the success
\* flag, whether process_llm_output ran without raising, and the result of
\* check_constraints chk
Attempted(w, id, llm_output, found, chk) ==
    [w |-> SetNode(w, id, chk.node), success |-> chk.ok /\ found,
     processed |-> ~ProcessRaises(llm_output), ok |-> chk.ok, invoked |-> chk.invoked]

\* the try block from "Check constraints" on, n being the node after the
\* search for results
CheckStep(w, cons, id, llm_output, n) ==
    Attempted(w, id, llm_output, Found(n), check_constraints(cons, n))

\* the try block from "Check if we got any valid results" on
ResultStep(w, cons, id, llm_output) ==
    CheckStep(w, cons, id, llm_output,
              IF Found(w.node_lookup[id]) THEN w.node_lookup[id]
              ELSE _extract_code_from_json_output(w.node_lookup[id]))

\* the body of the try block of _execute_node once the gateway has returned
\* a non-blank text
TryBody(w, cons, id, llm_output) ==
    ResultStep(process_llm_output(SetNode(w, id, [w.node_lookup[id] EXCEPT !.output = llm_output]),
                                  id, llm_output),
               cons, id, llm_output)

\* the end of _execute_node: a is what AfterLoop returns
Finish(table, id, a) ==
    /\ node_lookup' = [table EXCEPT ![id] = a.node]
    /\ pc' = IF a.summarize THEN "summarize" ELSE "idle"
    /\ summarized' = IF a.summarize THEN 1 ELSE 0

\* the except branch of the retry loop: h is what
\* handle_node_retryable_error returns, kind the exception ("throw": the
\* gateway raised; "empty": the text was empty or blank)
Raised(h, kind) ==
    /\ node_lookup' = [node_lookup EXCEPT ![cur] = h.node]
    /\ sleeps' = sleeps + h.slept
    /\ trace' = Append(trace, [kind |-> kind, processed |-> FALSE, children |-> 0])
    /\ pc' = IF h.stop THEN "idle" ELSE "generate"
    /\ attempt' = IF h.stop THEN attempt ELSE attempt + 1
    /\ UNCHANGED <<dependency_graph, next_id, summarized, checked>>

\* the rest of the iteration once the try block has run as b, and the rest
\* of _execute_node when the loop ends with it
Returned(b) ==
    /\ dependency_graph' = b.w.dependency_graph
    /\ next_id' = b.w.next_id
    /\ trace' = Append(trace, [kind |-> IF b.ok THEN "passed" ELSE "constraint",
                               processed |-> b.processed, children |-> b.w.next_id - next_id])
    /\ checked' = [node |-> cur, list |-> get_constraints(constraints, cur),
                   output |-> b.w.node_lookup[cur].output, invoked |-> b.invoked, ok |-> b.ok,
                   error_message |-> b.w.node_lookup[cur].error_message]
    /\ UNCHANGED sleeps
    /\ IF ~b.ok /\ attempt + 1 < MAX_RETRIES
       THEN \* continue
            /\ node_lookup' = b.w.node_lookup
            /\ attempt' = attempt + 1
            /\ UNCHANGED <<pc, summarized>>
       ELSE \* break, or the loop is exhausted
            /\ Finish(b.w.node_lookup, cur, AfterLoop(b.w.node_lookup[cur], b.success))
            /\ UNCHANGED attempt

\* the exception the try block raises before any output is stored
ErrorOf(resp) == IF resp.throw THEN "transport error" ELSE "Empty response from LLM"

\* one iteration of the retry loop of _execute_node, from the gateway's
\* answer on, and the rest of _execute_node when the loop ends with it
GatewayRespond(resp) ==
    /\ pc = "generate"
    /\ next_id + ChildrenOf(resp.text) <= MaxNodes + 1
    /\ requests < MaxCalls
    /\ requests' = requests + 1
    /\ calls' = calls + 1
    /\ IF resp.throw \/ OutputAttr[resp.text].blank
       THEN Raised(handle_node_retryable_error(node_lookup[cur], attempt, ErrorOf(resp)),
                   IF resp.throw THEN "throw" ELSE "empty")
       ELSE Returned(TryBody(World, constraints, cur, resp.text))
    /\ UNCHANGED <<constraints, global_context, execution_count, summary_interval, max_depth, steady,
                   root_node_id, file, cur, ops, op, raised, compressions, shared_data, disk, returned>>

\* summarize_node writing a line that names no node
SummaryLineOfNoNode(node, r) == Line(NoId, node.status, "summary")

\* the line summarize_node appends for an answer of the gateway
SummaryLine(node, r) ==
    Line(node.node_id, node.status,
         CASE r = "ok" -> "summary"
           [] r = "no_keys" -> "summary not available"
           [] OTHER -> "Error during summarization")

\* the test made on the counter as it was before the increment
DueBeforeIncrement(count, interval) == (count - 1) % interval = 0

\* the test after "execution_count += 1" in summarize_node
Due(count, interval) == count % interval = 0

\* summarize_node from the gateway's answer on
SummarizeRespond(r) ==
    /\ pc = "summarize"
    /\ global_context' = Append(global_context, SummaryLine(node_lookup[cur], r))
    /\ execution_count' = execution_count + 1
    /\ pc' = IF Due(execution_count + 1, summary_interval) THEN "compress" ELSE "idle"
    /\ compressions' = IF Due(execution_count + 1, summary_interval) THEN compressions + 1
                       ELSE compressions
    /\ UNCHANGED <<node_lookup, dependency_graph, constraints, summary_interval, max_depth, steady, root_node_id,
                   next_id, file, cur, attempt, calls, sleeps, trace, summarized, checked, ops, requests, op, raised,
                   shared_data, disk, returned>>

\* the context _summarize_global_context leaves for an answer of the gateway
_summarize_global_context(r) ==
    CASE r = "ok" -> <<Line(NoId, "", "summary of context")>>
      [] r = "non_string" -> NonStringContext
      [] r = "no_keys" -> <<Line(NoId, "", "Error: Could not summarize global context.")>>
      [] OTHER -> <<Line(NoId, "", "Error during summarization")>>

\* _summarize_global_context from the gateway's answer on
CompressRespond(r) ==
    /\ pc = "compress"
    /\ global_context' = _summarize_global_context(r)
    /\ pc' = "idle"
    /\ UNCHANGED <<node_lookup, dependency_graph, constraints, execution_count, summary_interval, max_depth, steady,
                   root_node_id, next_id, file, cur, attempt, calls, sleeps, trace, summarized, checked,
                   ops, requests, op, raised, compressions, shared_data, disk, returned>>

\* the regeneration guidance a caller passes
Guidances == {"shorter"}

Tracker == [dependency_graph |-> dependency_graph, constraints |-> constraints]

\* the state delete_node_and_children works on
Session == [node_lookup |-> node_lookup, tracker |-> Tracker]

\* the table and the tracker become those of st; the ids gone are recorded
Removed(name, id, st) ==
    /\ dependency_graph' = st.tracker.dependency_graph
    /\ constraints' = st.tracker.constraints
    /\ Start(name, id, (DOMAIN node_lookup) \ (DOMAIN st.node_lookup))

\* the last lines of _regenerate_node: "node.child_ids = []" and the
\* execution, st being the state the deletions have left
Reexecute(id, st) ==
    /\ BeginExecute([st.node_lookup EXCEPT ![id].child_ids = <<>>], id)
    /\ Removed("regenerate", id, st)

\* the first lines of _regenerate_node
Renewed(node, regeneration_guidance) ==
    [node EXCEPT !.status = STATUS_PENDING, !.output = "", !.error_message = NoError,
                 !.local_memory.keys = @ \cup {"regeneration_guidance"},
                 !.local_memory.regeneration_guidance = regeneration_guidance]

\* Agent._regenerate_node; the interface offers it for completed and failed nodes
Regenerate(id, regeneration_guidance) ==
    /\ pc = "idle"
    /\ id \in DOMAIN node_lookup
    /\ node_lookup[id].status \in {STATUS_COMPLETED, STATUS_FAILED}
    /\ Reexecute(id, DeleteChildren(
            [node_lookup |-> [node_lookup EXCEPT ![id] = Renewed(node_lookup[id], regeneration_guidance)],
             tracker |-> Tracker],
            node_lookup[id].child_ids))
    /\ UNCHANGED <<global_context, execution_count, summary_interval, max_depth, steady, root_node_id, next_id, file>>

\* the state a deletion leaves becomes the session's
Deleted(id, st) ==
    /\ node_lookup' = st.node_lookup
    /\ Removed("delete", id, st)

\* agentFlow("delete", node)
Delete(id) ==
    /\ pc = "idle"
    /\ id \in DOMAIN node_lookup
    /\ Deleted(id, delete_node_and_children(Session, node_lookup[id]))
    /\ raised' = FALSE
    /\ UNCHANGED <<global_context, execution_count, summary_interval, max_depth, steady, root_node_id, next_id,
                   file, pc, cur, attempt, calls, sleeps, trace, summarized, checked>>

\* the follow-up branch of _select_node: the child w holds is executed
FollowUp(w, child_id) ==
    /\ BeginExecute(w.node_lookup, child_id)
    /\ dependency_graph' = w.dependency_graph
    /\ next_id' = w.next_id

\* Agent._select_node; follow_up: the "Continue with this detail" button is
\* pressed with a non-blank task
Select(id, follow_up) ==
    /\ pc = "idle"
    /\ id \in DOMAIN node_lookup
    /\ Start("select", id, {})
    /\ IF node_lookup[id].status = STATUS_PENDING
       THEN /\ BeginExecute(node_lookup, id)
            /\ UNCHANGED <<dependency_graph, next_id>>
       ELSE IF (node_lookup[id].status = STATUS_COMPLETED /\ node_lookup[id].child_ids # <<>>)
               \/ ~follow_up
       THEN /\ raised' = FALSE
            /\ UNCHANGED <<node_lookup, dependency_graph, next_id, pc, cur, attempt, calls,
                           sleeps, trace, summarized, checked>>
       ELSE /\ next_id <= MaxNodes
            /\ FollowUp(create_child_node(World, id, "more", node_lookup[id].depth + 1), next_id)
    /\ UNCHANGED <<constraints, global_context, execution_count, summary_interval, max_depth, steady,
                   root_node_id, file>>

\* the world w a creation leaves becomes the session's
Created(w) ==
    /\ node_lookup' = w.node_lookup
    /\ dependency_graph' = w.dependency_graph
    /\ next_id' = w.next_id

\* the "Add Task" button of app.py: create_child_node(node, task, node.depth + 1)
\* on a completed node
AddChild(id) ==
    /\ pc = "idle"
    /\ id \in DOMAIN node_lookup
    /\ node_lookup[id].status = STATUS_COMPLETED
    /\ next_id <= MaxNodes
    /\ Created(create_child_node(World, id, "more", node_lookup[id].depth + 1))
    /\ Start("add_child", id, {})
    /\ raised' = FALSE
    /\ UNCHANGED <<constraints, global_context, execution_count, summary_interval, max_depth, steady, root_node_id,
                   file, pc, cur, attempt, calls, sleeps, trace, summarized, checked>>

\* the "Apply Agent Settings" button
ApplyAgentSettings(interval, depth) ==
    /\ pc = "idle"
    /\ max_depth' = depth
    /\ summary_interval' = interval
    /\ steady' = (steady /\ execution_count = 0)
    /\ Start("settings", NoId, {})
    /\ raised' = FALSE
    /\ UNCHANGED <<node_lookup, dependency_graph, constraints, global_context, execution_count,
                   root_node_id, next_id, file, pc, cur, attempt, calls, sleeps, trace, summarized, checked>>

\* the document save_session builds
Document ==
    [exists |-> TRUE, node_lookup |-> node_lookup, dependency_graph |-> dependency_graph,
     constraints |-> constraints, root_node_id |-> root_node_id,
     global_memory |-> global_context, execution_count |-> execution_count]

\* save_session emptying the store of every node it describes
SaveSessionEmptiesStores ==
    /\ pc = "idle"
    /\ Start("save", NoId, {})
    /\ IF root_node_id = NoId \/ DOMAIN node_lookup # {}
       THEN /\ raised' = TRUE
            /\ UNCHANGED file
       ELSE /\ raised' = FALSE
            /\ file' = Document
    /\ node_lookup' = [id \in DOMAIN node_lookup |->
                          [node_lookup[id] EXCEPT !.local_memory = [@ EXCEPT !.keys = {}]]]
    /\ UNCHANGED <<dependency_graph, constraints, global_context, execution_count,
                   summary_interval, max_depth, steady, root_node_id, next_id, pc, cur, attempt, calls, sleeps,
                   trace, summarized, checked>>

\* Agent.save_session.  Reading st.session_state.root_node_id raises when it
\* is not set; each entry of data["node_lookup"] was built without its
\* "local_memory" key, so the loop that reads that key raises KeyError on
\* the first node, before the file is opened.
SaveSession ==
    /\ pc = "idle"
    /\ Start("save", NoId, {})
    /\ IF root_node_id = NoId \/ DOMAIN node_lookup # {}
       THEN /\ raised' = TRUE
            /\ UNCHANGED file
       ELSE /\ raised' = FALSE
            /\ file' = Document
    /\ UNCHANGED <<node_lookup, dependency_graph, constraints, global_context, execution_count,
                   summary_interval, max_depth, steady, root_node_id, next_id, pc, cur, attempt, calls, sleeps,
                   trace, summarized, checked>>

\* the Node load_session rebuilds from a saved entry
LoadNode(node_data) ==
    [NewNode(node_data.node_id, node_data.parent_id, node_data.task_description, node_data.depth)
        EXCEPT !.child_ids = node_data.child_ids, !.status = node_data.status,
               !.output = node_data.output, !.error_message = node_data.error_message,
               !.local_memory = node_data.local_memory]

\* Agent.load_session of an existing file
LoadSession ==
    /\ pc = "idle"
    /\ file.exists
    /\ root_node_id' = file.root_node_id
    /\ node_lookup' = [id \in DOMAIN file.node_lookup |-> LoadNode(file.node_lookup[id])]
    /\ dependency_graph' = file.dependency_graph
    /\ constraints' = file.constraints
    /\ global_context' = file.global_memory
    /\ execution_count' = file.execution_count
    /\ Persist("load")
    /\ raised' = FALSE
    /\ steady' = FALSE
    /\ UNCHANGED <<summary_interval, max_depth, next_id, file, pc, cur, attempt, calls, sleeps, trace,
                   summarized, checked>>

\* a tracker call leaves the session with the constraints map cons
TrackerCall(name, node_id, cons) ==
    /\ pc = "idle"
    /\ constraints' = cons
    /\ Start(name, node_id, {})
    /\ raised' = FALSE
    /\ UNCHANGED <<node_lookup, dependency_graph, global_context, execution_count, summary_interval,
                   max_depth, steady, root_node_id, next_id, file, pc, cur, attempt, calls, sleeps,
                   trace, summarized, checked>>

\* the constraints and the 0-based indexes a caller passes to the tracker
ApiConstraints == {CMax5, CContainsX}
Indexes == {0, 1, 2}

\* AttentionMechanism.add_constraint called by a user of the tracker
AddConstraint(node_id, constraint) ==
    TrackerCall("add_constraint", node_id, add_constraint(constraints, node_id, constraint))

\* AttentionMechanism.update_constraint
UpdateConstraint(node_id, constraint_index, new_constraint) ==
    TrackerCall("update_constraint", node_id,
                update_constraint(constraints, node_id, constraint_index, new_constraint))

\* AttentionMechanism.remove_constraint
RemoveConstraint(node_id, constraint_index) ==
    TrackerCall("remove_constraint", node_id,
                remove_constraint(constraints, node_id, constraint_index))

\* AttentionMechanism.propagate_constraints
PropagateConstraints(parent_node_id) ==
    TrackerCall("propagate_constraints", parent_node_id,
                propagate_constraints(constraints, node_lookup, parent_node_id))

\* agentFlow("delete", node) with a Node object that is no longer in the
\* table: none of its children is in the table either, the two pops find
\* what an earlier run has left in the tracker, or nothing
DeleteAbsent(id) ==
    /\ pc = "idle"
    /\ id \in (1..(next_id - 1)) \ DOMAIN node_lookup
    /\ Deleted(id, RemoveSelf(Session, id))
    /\ raised' = FALSE
    /\ UNCHANGED <<global_context, execution_count, summary_interval, max_depth, steady, root_node_id, next_id,
                   file, pc, cur, attempt, calls, sleeps, trace, summarized, checked>>

\* the action names agentFlow dispatches
KnownActions == {"execute", "regenerate", "delete", "select"}

\* action names a caller may pass that are none of them
InvalidActions == {"explode", "EXECUTE"}

\* agentFlow swallowing an action name it does not know
agentFlow_ignores(action) == FALSE

\* the else branch of agentFlow: raise ValueError
agentFlow_raises(action) == action \notin KnownActions

\* agentFlow(action, node) with an action name that is not dispatched
InvalidAction(action, id) ==
    /\ pc = "idle"
    /\ id \in DOMAIN node_lookup
    /\ action \notin KnownActions
    /\ raised' = agentFlow_raises(action)
    /\ Start(action, id, {})
    /\ UNCHANGED <<node_lookup, dependency_graph, constraints, global_context, execution_count,
                   summary_interval, max_depth, steady, root_node_id, next_id, file, pc, cur, attempt,
                   calls, sleeps, trace, summarized, checked>>

Next ==
    \/ \E l \in InitialConstraintLists : Run(l)
    \/ ResetAgent
    \/ \E id \in NodeIds : Execute(id)
    \/ \E resp \in Responses : GatewayRespond(resp)
    \/ \E r \in SummaryResponses : SummarizeRespond(r)
    \/ \E r \in ContextResponses : CompressRespond(r)
    \/ \E id \in NodeIds, g \in Guidances : Regenerate(id, g)
    \/ \E id \in NodeIds : Delete(id)
    \/ \E id \in NodeIds, f \in BOOLEAN : Select(id, f)
    \/ \E id \in NodeIds : AddChild(id)
    \/ \E i \in Intervals, d \in Depths : ApplyAgentSettings(i, d)
    \/ SaveSession
    \/ LoadSession

Spec == Init /\ [][Next]_vars

\* the answers of the gateway that build the trees the calls below work on:
\* two subtasks, or a result
ApiResponses == {resp \in Responses : ~resp.throw /\ resp.text \in {OutSub2, OutResult}}

\* a call of a memory method: counted, never raising
MemoryCall(name, node_id) ==
    /\ pc = "idle"
    /\ ops < MaxOps
    /\ ops' = ops + 1
    /\ op' = Op(name, node_id, {})
    /\ raised' = FALSE
    /\ UNCHANGED <<dependency_graph, constraints, execution_count, summary_interval, max_depth,
                   steady, root_node_id, next_id, file, pc, cur, attempt, calls, sleeps, trace,
                   summarized, checked, requests, compressions>>

\* what GlobalMemory holds
GlobalData == [global_context |-> global_context, shared_data |-> shared_data]

\* GlobalMemory.store(key, value)
GlobalStore(key, value) ==
    /\ shared_data' = Put(shared_data, key, value)
    /\ MemoryCall("global_store", NoId)
    /\ UNCHANGED <<node_lookup, global_context, disk, returned>>

\* GlobalMemory.save_to_disk
GlobalSave(io_error) ==
    /\ disk' = [disk EXCEPT ![NoId] = save_to_disk(GlobalData, io_error).document]
    /\ returned' = save_to_disk(GlobalData, io_error).returned
    /\ MemoryCall("global_save", NoId)
    /\ UNCHANGED <<node_lookup, global_context, shared_data>>

\* GlobalMemory.load_from_disk
GlobalLoad ==
    /\ global_context' = load_from_disk(GlobalData, disk[NoId], GlobalData).memory.global_context
    /\ shared_data' = load_from_disk(GlobalData, disk[NoId], GlobalData).memory.shared_data
    /\ returned' = load_from_disk(GlobalData, disk[NoId], GlobalData).returned
    /\ MemoryCall("global_load", NoId)
    /\ UNCHANGED <<node_lookup, disk>>

\* Node.save_to_disk: LocalMemory.save_to_disk of the node's memory
LocalSave(id, io_error) ==
    /\ id \in DOMAIN node_lookup
    /\ disk' = [disk EXCEPT ![id] = save_to_disk(node_lookup[id].local_memory, io_error).document]
    /\ returned' = save_to_disk(node_lookup[id].local_memory, io_error).returned
    /\ MemoryCall("local_save", id)
    /\ UNCHANGED <<node_lookup, global_context, shared_data>>

\* Node.load_from_disk: LocalMemory.load_from_disk into the node's memory
LocalLoad(id) ==
    /\ id \in DOMAIN node_lookup
    /\ node_lookup' = [node_lookup EXCEPT ![id].local_memory =
            load_from_disk(@, disk[id], NewMemory("")).memory]
    /\ returned' = load_from_disk(node_lookup[id].local_memory, disk[id], NewMemory("")).returned
    /\ MemoryCall("local_load", id)
    /\ UNCHANGED <<global_context, shared_data, disk>>

\* the session with its memories saved to and loaded from disk
MemoryNext ==
    \/ \E l \in {<<>>} : Run(l)
    \/ \E resp \in ApiResponses : GatewayRespond(resp)
    \/ \E r \in {"ok"} : SummarizeRespond(r)
    \/ \E v \in {"v"} : GlobalStore("k", v)
    \/ \E e \in BOOLEAN : GlobalSave(e)
    \/ GlobalLoad
    \/ \E id \in NodeIds, e \in BOOLEAN : LocalSave(id, e)
    \/ \E id \in NodeIds : LocalLoad(id)

MemorySpec == Init /\ [][MemoryNext]_vars

\* the session driven through agentFlow and the tracker's own methods
ApiNext ==
    \/ \E l \in InitialConstraintLists : Run(l)
    \/ \E resp \in ApiResponses : GatewayRespond(resp)
    \/ \E r \in {"ok"} : SummarizeRespond(r)
    \/ \E id \in NodeIds : Delete(id)
    \/ \E id \in NodeIds : DeleteAbsent(id)
    \/ \E id \in NodeIds, c \in ApiConstraints : AddConstraint(id, c)
    \/ \E id \in NodeIds, i \in Indexes, c \in ApiConstraints : UpdateConstraint(id, i, c)
    \/ \E id \in NodeIds, i \in Indexes : RemoveConstraint(id, i)
    \/ \E id \in NodeIds : PropagateConstraints(id)
    \/ \E a \in InvalidActions, id \in NodeIds : InvalidAction(a, id)

ApiSpec == Init /\ [][ApiNext]_vars

\* the custom constraint typed into the start form, passed to run as it was
\* typed: with and without a colon, with and without surrounding blanks
TypedConstraints ==
    {<<"code">>, <<" ", "code">>, <<"code", " ">>, CCodeTrue, CMax5, CMax1, CMaxBad,
     <<" ", "max_length", " ", ":", " ", "5", " ">>, <<"contains", ":", "x", ":", "y">>}

\* the answers of the gateway to the root's prompt: code, a result, a text
\* of one character and one of two
TypedResponses ==
    {resp \in Responses : ~resp.throw /\ resp.text \in {OutCode, OutResult, OutX, OutRaw}}

\* the session started from the form with one custom constraint
TypedNext ==
    \/ \E c \in TypedConstraints : Run(<<c>>)
    \/ \E resp \in TypedResponses : GatewayRespond(resp)
    \/ \E r \in {"ok"} : SummarizeRespond(r)

TypedSpec == Init /\ [][TypedNext]_vars

\* ------------------------------------------------------------------------
\* Properties
\* ------------------------------------------------------------------------
RECURSIVE Under(_, _, _)
\* n is id or a descendant of id, by the parent links of table
Under(table, n, id) ==
    \/ n = id
    \/ /\ n \in DOMAIN table
       /\ table[n].parent_id # NoId
       /\ Under(table, table[n].parent_id, id)

Subtree(table, id) == {n \in DOMAIN table : Under(table, n, id)}

RECURSIVE Without(_, _)
\* the list s with the members of ids stripped
Without(s, ids) ==
    IF s = <<>> THEN <<>>
    ELSE IF Head(s) \in ids THEN Without(Tail(s), ids)
    ELSE <<Head(s)>> \o Without(Tail(s), ids)

\* the indices of list whose constraint type has a registered checker
RegisteredIn(list) == {i \in 1..Len(list) : parse_constraint(list[i]).type \in ConstraintCheckers}

\* what the checker of the constraint at index i of list answers for a node
\* holding the text output
Verdict(list, i, output) ==
    RunChecker(parse_constraint(list[i]).type, parse_constraint(list[i]).value,
               [NewNode(NoId, NoId, "", 0) EXCEPT !.output = output])

\* the registered constraints of list that the text violates
FailingIn(list, output) == {i \in RegisteredIn(list) : ~Verdict(list, i, output).ok}

\* the execution of cur has returned
Ended == pc # "generate"

\* the state is the one an operation on the tree named name has just left
Did(name) == op.name = name

\* C1: completion gate.  A node whose status execute has set to completed
\* holds an output that process_llm_output processed without failing and
\* that violates none of the node's constraints with a registered checker;
\* so no execute leaves a node completed whose stored output violates one.
C1_CompletionGate ==
    \A id \in DOMAIN node_lookup :
        node_lookup[id].status = STATUS_COMPLETED =>
            /\ ~ProcessRaises(node_lookup[id].output)
            /\ FailingIn(get_constraints(constraints, id), node_lookup[id].output) = {}
            /\ check_constraints(constraints, node_lookup[id]).ok

\* an execute has completed a node after the checkers of its registered
\* constraints were invoked on the output it stored
C1_Witness ==
    /\ Ended
    /\ cur \in DOMAIN node_lookup
    /\ node_lookup[cur].status = STATUS_COMPLETED
    /\ RegisteredIn(get_constraints(constraints, cur)) # {}
    /\ checked.node = cur
    /\ checked.invoked # <<>>

\* C2: a constraint failure is not retried.  Once check_constraints has
\* returned false for an attempt, that attempt is the last one of the
\* execute: the gateway is not called again and the call has ended with
\* the node failed, carrying the failing checker's message.
C2_ConstraintFailureNotRetried ==
    \A i \in 1..Len(trace) :
        trace[i].kind = "constraint" =>
            /\ i = Len(trace)
            /\ Ended
            /\ cur \in DOMAIN node_lookup =>
                  /\ node_lookup[cur].status = STATUS_FAILED
                  /\ node_lookup[cur].error_message = checked.error_message

\* the gateway has raised on every call of the current execute so far
AllThrew == trace # <<>> /\ \A i \in 1..Len(trace) : trace[i].kind = "throw"

C4_DeleteRemovesSubtree ==
    [][(op'.name = "delete" /\ ops' = ops + 1) =>
          /\ op'.removed = Subtree(node_lookup, op'.node)
          /\ DOMAIN node_lookup' = (DOMAIN node_lookup) \ Subtree(node_lookup, op'.node)
          /\ DOMAIN dependency_graph' = (DOMAIN dependency_graph) \ Subtree(node_lookup, op'.node)
          /\ DOMAIN constraints' = (DOMAIN constraints) \ Subtree(node_lookup, op'.node)
          /\ \A d \in DOMAIN dependency_graph' :
                /\ Range(dependency_graph'[d]) \cap Subtree(node_lookup, op'.node) = {}
                /\ dependency_graph'[d] = Without(dependency_graph[d], Subtree(node_lookup, op'.node))
          /\ \A d \in DOMAIN constraints' : constraints'[d] = constraints[d]
      ]_vars

\* a delete has removed a node with a descendant and has left other nodes,
\* one of them with constraints
C4_Witness ==
    /\ Did("delete")
    /\ Cardinality(op.removed) >= 2
    /\ DOMAIN node_lookup # {}
    /\ \E d \in DOMAIN node_lookup : get_constraints(constraints, d) # <<>>

\* C5: regenerate(node, guidance) leaves none of the node's former children
\* or of their descendants in node.child_ids, the node table, the dependency
\* graph or the constraints map; and the node has no children when no
\* attempt of the re-execution creates subtasks.
C5_RegenerateDropsChildren ==
    /\ [][(op'.name = "regenerate" /\ ops' = ops + 1) =>
             /\ op'.removed = Subtree(node_lookup, op'.node) \ {op'.node}
             /\ op'.removed \cap DOMAIN node_lookup' = {}
             /\ op'.removed \cap DOMAIN dependency_graph' = {}
             /\ op'.removed \cap DOMAIN constraints' = {}
             /\ node_lookup'[op'.node].child_ids = <<>>
         ]_vars
    /\ []((Did("regenerate") /\ cur = op.node /\ cur \in DOMAIN node_lookup) =>
             /\ Range(node_lookup[cur].child_ids) \cap op.removed = {}
             /\ op.removed \cap DOMAIN node_lookup = {}
             /\ op.removed \cap DOMAIN dependency_graph = {}
             /\ op.removed \cap DOMAIN constraints = {}
             /\ (\A i \in 1..Len(trace) : trace[i].children = 0) =>
                    node_lookup[cur].child_ids = <<>>)

\* a regenerate of a node with 2 children has re-executed it to completion
\* without subtasks
C5_Witness ==
    /\ Did("regenerate")
    /\ Cardinality(op.removed) = 2
    /\ Ended
    /\ cur = op.node
    /\ cur \in DOMAIN node_lookup
    /\ node_lookup[cur].status = STATUS_COMPLETED
    /\ node_lookup[cur].child_ids = <<>>

\* the session is the one the document on disk describes
Restored ==
    /\ file.exists
    /\ root_node_id = file.root_node_id
    /\ node_lookup = file.node_lookup
    /\ dependency_graph = file.dependency_graph
    /\ constraints = file.constraints
    /\ global_context = file.global_memory
    /\ execution_count = file.execution_count

\* C6: save then load is a lossless round trip.  For a session with at
\* least one node save_session completes, writing the document of the
\* session, and load_session yields the session the document describes.
C6_SaveLoadRoundTrip ==
    /\ (Did("save") /\ DOMAIN node_lookup # {}) => (~raised /\ file = Document)
    /\ Did("load") => Restored

\* C7: check_constraints invokes the checkers in the insertion order of the
\* node's list, stops at the first one that returns false, so that the
\* message left is that of the first failing constraint, and returns true
\* if and only if every constraint passes.
C7_CheckConstraintsOrder ==
    checked.node # NoId =>
        /\ checked.ok <=> FailingIn(checked.list, checked.output) = {}
        /\ \A k \in 1..Len(checked.invoked) :
              \A l \in 1..Len(checked.invoked) : k < l => checked.invoked[k] < checked.invoked[l]
        /\ Range(checked.invoked) =
              {i \in RegisteredIn(checked.list) :
                  \A j \in FailingIn(checked.list, checked.output) : i <= j}
        /\ ~checked.ok =>
              \E j \in FailingIn(checked.list, checked.output) :
                  /\ \A k \in FailingIn(checked.list, checked.output) : j <= k
                  /\ checked.error_message = Verdict(checked.list, j, checked.output).node.error_message

\* check_constraints has stopped at the first of two registered constraints
\* that the output both violates
C7_Witness ==
    /\ checked.node # NoId
    /\ ~checked.ok
    /\ checked.invoked = <<1>>
    /\ FailingIn(checked.list, checked.output) = {1, 2}

\* C8: the root has depth 0 and every other node of the table has the depth
\* of its parent plus 1, whether process_llm_output created it or a caller
\* did through create_child_node.
C8_DepthOfChildren ==
    \A id \in DOMAIN node_lookup :
        IF node_lookup[id].parent_id = NoId
        THEN node_lookup[id].depth = 0
        ELSE /\ node_lookup[id].parent_id \in DOMAIN node_lookup
             /\ node_lookup[id].depth = node_lookup[node_lookup[id].parent_id].depth + 1

\* a caller has added a child at depth 2, below a node that an execute created
C8_Witness ==
    /\ Did("add_child")
    /\ \E id \in DOMAIN node_lookup : node_lookup[id].depth = 2
    /\ root_node_id \in DOMAIN node_lookup

\* C9: run clears all state of the previous run.  Right after run has
\* created and registered the new root, before any output of the gateway,
\* the node table holds only the root, and the dependency graph and the
\* constraints map hold no entry for another id.
C9_RunClearsAllState ==
    (Did("run") /\ pc = "generate" /\ calls = 0) =>
        /\ DOMAIN node_lookup = {root_node_id}
        /\ DOMAIN dependency_graph \subseteq {root_node_id}
        /\ DOMAIN constraints \subseteq {root_node_id}

\* C10: a node whose status is not failed has an empty error message.
C10_ErrorMessageOnlyWhenFailed ==
    \A id \in DOMAIN node_lookup :
        node_lookup[id].status # STATUS_FAILED => node_lookup[id].error_message = NoError

\* C11: a node whose status is failed has a non-empty error message, on
\* every path to failed: a violated constraint, an exception in
\* process_llm_output, exhausted retries, an output without usable result.
C11_FailedHasMessage ==
    \A id \in DOMAIN node_lookup :
        node_lookup[id].status = STATUS_FAILED =>
            /\ node_lookup[id].error_message # NoError
            /\ node_lookup[id].error_message.text # ""

\* an execute has failed a node because its output yielded neither
\* children nor a result nor code files, although no constraint was violated
C11_Witness ==
    /\ Ended
    /\ cur \in DOMAIN node_lookup
    /\ node_lookup[cur].status = STATUS_FAILED
    /\ node_lookup[cur].error_message.text = "Failed to process LLM output after multiple attempts"
    /\ checked.node = cur
    /\ checked.ok

\* C12: summarize_node never raises to its caller, whatever the gateway
\* answers: every call appends exactly one line for the node (a summary
\* line or an error line) to the global context, leaves the lines before it
\* as they were, and adds exactly 1 to the execution counter.
C12_SummarizeNodeNeverRaises ==
    [][pc = "summarize" =>
        /\ Len(global_context') = Len(global_context) + 1
        /\ SubSeq(global_context', 1, Len(global_context)) = global_context
        /\ global_context'[Len(global_context')].node = cur
        /\ global_context'[Len(global_context')].status = node_lookup[cur].status
        /\ global_context'[Len(global_context')].kind \in
               {"summary", "summary not available", "Error during summarization"}
        /\ execution_count' = execution_count + 1
        /\ ~raised'
        /\ node_lookup' = node_lookup]_vars

\* summarize_node has returned after the gateway raised or answered something
\* that is not an object: the error line of the node is the last line
C12_Witness ==
    /\ pc = "idle" /\ summarized = 1 /\ ~raised
    /\ execution_count = 1
    /\ Len(global_context) = 2
    /\ global_context[2] = Line(cur, STATUS_COMPLETED, "Error during summarization")

\* C13: the global context is compressed exactly when the execution counter,
\* as summarize_node has just incremented it, is a multiple of the summary
\* interval; from counter 0 under one interval, k leaf completions compress
\* it k \div interval times; and a compression replaces the whole context by
\* the returned summary or by an error text.
C13_CompressionSchedule ==
    /\ [][(pc = "summarize" =>
               /\ (pc' = "compress") = (execution_count' % summary_interval = 0)
               /\ compressions' = compressions + (IF pc' = "compress" THEN 1 ELSE 0))
          /\ (pc = "compress" =>
               /\ Len(global_context') = 1
               /\ global_context'[1].node = NoId
               /\ global_context'[1].kind \in
                      {"summary of context", "summary that is not a string",
                       "Error: Could not summarize global context.",
                       "Error during summarization"}
               /\ global_context' # global_context
               /\ execution_count' = execution_count)
          /\ (pc' = "compress" => pc = "summarize")]_vars
    /\ [](steady => compressions = execution_count \div summary_interval)

\* with interval 2 the first leaf completion left the context alone and the
\* second one compressed it
C13_Witness ==
    /\ steady /\ summary_interval = 2 /\ execution_count = 2 /\ compressions = 1
    /\ pc = "idle" /\ Len(global_context) = 1

\* C14: no node is ever created at a depth greater than max_depth, whether
\* the creation comes from the output of the model or from a direct call of
\* create_child_node. The code never compares a depth with max_depth.
C14_DepthBoundedByMaxDepth ==
    [][\A id \in DOMAIN node_lookup' \ DOMAIN node_lookup :
           node_lookup'[id].depth <= max_depth]_vars

\* C15: after any sequence of add_constraint, update_constraint,
\* remove_constraint and propagate_constraints calls every node's constraint
\* list is free of duplicates, and add_constraint of a string the list
\* already holds leaves the list as it was (an add either changes nothing or
\* appends one string the list did not hold). update_constraint writes the
\* new string without looking for it in the list.
C15_ConstraintListsDuplicateFree ==
    /\ [](\A id \in DOMAIN constraints : NoDup(constraints[id]))
    /\ [][(op'.name = "add_constraint" /\ ops' = ops + 1) =>
            \/ constraints'[op'.node] = get_constraints(constraints, op'.node)
            \/ \E c \in ApiConstraints :
                  /\ ~Contains(get_constraints(constraints, op'.node), c)
                  /\ constraints'[op'.node] = Append(get_constraints(constraints, op'.node), c)]_vars

\* C16: agentFlow with an action name that is not one of the known actions
\* raises to the caller and changes nothing: no node, no tracker entry, not
\* the global context, not the counter, and the gateway is not called.
C16_InvalidActionRaises ==
    [][(op'.name \in InvalidActions /\ ops' = ops + 1) =>
          /\ raised'
          /\ UNCHANGED <<node_lookup, dependency_graph, constraints, global_context,
                         execution_count, root_node_id, next_id, requests, calls, pc>>]_vars

\* agentFlow has raised on an unknown action name, given a node of a tree
\* with children and constraints
C16_Witness ==
    /\ op.name \in InvalidActions /\ raised
    /\ op.node \in DOMAIN node_lookup
    /\ node_lookup[op.node].child_ids # <<>>
    /\ get_constraints(constraints, op.node) # <<>>

\* C17: an operation applied to a node id that is not in the node table
\* (delete of a node already deleted, propagate_constraints for an unknown
\* parent, update_constraint or remove_constraint for an unknown id), or a
\* remove_constraint whose index is out of range and so removes nothing,
\* raises to the caller and is never a silent no-op. The code guards each
\* of them with a test and returns normally.
C17_AbsentNodeRaises ==
    [][/\ (/\ ops' = ops + 1
           /\ op'.name \in {"delete", "update_constraint", "remove_constraint",
                            "propagate_constraints"}
           /\ op'.node \notin DOMAIN node_lookup) => raised'
       /\ (/\ ops' = ops + 1
           /\ op'.name = "remove_constraint"
           /\ constraints' = constraints) => raised']_vars

\* the first attempt of a run has passed its text to process_llm_output
ProcessedOnce ==
    /\ Did("run") /\ Len(trace) = 1 /\ trace[1].kind \in {"passed", "constraint"}
    /\ cur \in DOMAIN node_lookup /\ checked.node = cur

\* the outcome the four-way priority gives node n for the value parsed
\* extracted from the text
OutcomeByPriority(n, text, parsed) ==
    IF Truthy(parsed) /\ parsed.t = "dict"
    THEN IF "subtasks" \in parsed.keys /\ parsed.subIsList
         THEN "result" \notin n.local_memory.keys /\ Len(n.child_ids) = ChildrenIn(parsed)
         ELSE IF "result" \in parsed.keys
         THEN /\ "result" \in n.local_memory.keys
              /\ n.local_memory.result = parsed.result /\ ~n.local_memory.json
         ELSE /\ "result" \in n.local_memory.keys
              /\ n.local_memory.result = text /\ n.local_memory.json
    ELSE /\ "result" \in n.local_memory.keys
         /\ n.local_memory.result = text /\ ~n.local_memory.json
         /\ n.child_ids = <<>>

\* C18: process_llm_output applies exactly one of four outcomes, in this
\* priority: an object with a subtasks list creates children and stores no
\* result; else an object with a result key stores that value under
\* "result"; else any other object is stored whole under "result"; and when
\* no object can be extracted the raw text is stored under "result", also
\* when the text holds fenced code blocks. The code stores no result for a
\* text with fenced code blocks, and fails on JSON that is not an object.
C18_FourOutcomes ==
    ProcessedOnce =>
        OutcomeByPriority(node_lookup[cur], checked.output, extract_json_from_text(checked.output))

\* the status changes one step may make to a node that stays in the table;
\* _regenerate_node sets pending and its _execute_node sets running in the
\* same step, so a regenerated node goes from completed or failed to running
StatusChanges(id) ==
    {<<STATUS_PENDING, STATUS_RUNNING>>, <<STATUS_RUNNING, STATUS_COMPLETED>>,
     <<STATUS_RUNNING, STATUS_FAILED>>}
    \cup (IF op'.name = "regenerate" /\ op'.node = id /\ ops' = ops + 1
          THEN {<<STATUS_COMPLETED, STATUS_RUNNING>>, <<STATUS_FAILED, STATUS_RUNNING>>}
          ELSE {})

C20_RunResetsCounterAndContext ==
    (Did("run") /\ calls = 0) =>
        /\ execution_count = 0
        /\ global_context = InitialContext

\* C21: LocalMemory.load_from_disk and GlobalMemory.load_from_disk of a
\* missing document do not raise: they return False and leave the local
\* key-value map, the global context and the shared data as they were.
C21_LoadOfMissingDocument ==
    [][(/\ ops' = ops + 1
        /\ op'.name \in {"local_load", "global_load"}
        /\ disk[op'.node] = Missing) =>
          /\ ~raised' /\ returned' = FALSE
          /\ node_lookup' = node_lookup
          /\ global_context' = global_context
          /\ shared_data' = shared_data
          /\ disk' = disk]_vars

\* a node that holds a result has loaded its missing document, or the
\* global memory with shared data and a summary line has loaded its own
C21_Witness ==
    /\ ~returned /\ ~raised
    /\ disk[op.node] = Missing
    /\ \/ /\ Did("local_load") /\ HasResult(node_lookup[op.node])
       \/ /\ Did("global_load") /\ shared_data # EmptyMap /\ Len(global_context) > 1

\* the last attempt of the execute that has ended returned a text that
\* process_llm_output handled without failing and that passed
\* check_constraints
LastAttemptGood ==
    /\ Ended /\ cur \in DOMAIN node_lookup /\ trace # <<>>
    /\ trace[Len(trace)].kind = "passed" /\ trace[Len(trace)].processed

\* C22: execute ends with the node completed whenever the last attempt of
\* that call returned a text that process_llm_output handled without failing
\* and that passed check_constraints, also after earlier attempts of the
\* call failed. In the code a status set to failed by a checker in an earlier
\* attempt is never set back, and an answer in which nothing is found fails.
C22_GoodLastAttemptCompletes ==
    LastAttemptGood => node_lookup[cur].status = STATUS_COMPLETED

\* C23: every execute ends after at most MAX_RETRIES gateway calls for the
\* node and leaves the node completed or failed, never running or pending,
\* whatever the gateway throws or returns. An execute whose build_prompt
\* raises (the global context is not a string) ends with the node running.
C23_ExecuteEndsCompletedOrFailed ==
    /\ calls <= MAX_RETRIES
    /\ (Ended /\ cur \in DOMAIN node_lookup) =>
           node_lookup[cur].status \in {STATUS_COMPLETED, STATUS_FAILED}

\* an entry of a subtasks array the claim has a child created for
Creates(e) == e.t = "str" \/ (e.t = "dict" /\ e.hasDesc)

\* the ids id, id + 1, ... given to n new nodes
FreshIds(id, n) == [i \in 1..n |-> id + i - 1]

\* node child of the table is the child the claim describes for entry e of
\* the parent's answer
IsChildFor(child, e, parent) ==
    /\ child.parent_id = parent.node_id
    /\ child.depth = parent.depth + 1
    /\ child.status = STATUS_PENDING
    /\ child.task_description = e.desc
    /\ child.child_ids = <<>>

\* what the claim has the step do for the creating entries of the answer
ChildrenCreated(entries) ==
    /\ next_id' = next_id + Len(entries)
    /\ DOMAIN node_lookup' = DOMAIN node_lookup \cup Range(FreshIds(next_id, Len(entries)))
    /\ node_lookup'[cur].child_ids = node_lookup[cur].child_ids \o FreshIds(next_id, Len(entries))
    /\ \A i \in 1..Len(entries) :
          /\ IsChildFor(node_lookup'[next_id + i - 1], entries[i], node_lookup[cur])
          /\ dependency_graph'[next_id + i - 1] = <<cur>>

\* C24: when the parsed output has a subtasks array, process_llm_output
\* creates exactly one child per entry that is a string or an object with
\* task_description, in array order, skipping every other entry; each child
\* has the node as parent, the node's depth + 1, status pending, is in the
\* node table, is appended to the node's child_ids and depends on [node id].
C24_ChildPerSubtask ==
    [][(/\ pc = "generate" /\ Len(trace') = Len(trace) + 1
        /\ trace'[Len(trace')].kind \in {"passed", "constraint"}
        /\ Truthy(extract_json_from_text(node_lookup'[cur].output))
        /\ extract_json_from_text(node_lookup'[cur].output).subIsList) =>
          ChildrenCreated(SelectSeq(extract_json_from_text(node_lookup'[cur].output).subtasks,
                                    Creates))]_vars

\* the answer [5, {"task_description": "a"}] has given the node one child,
\* for the object
C24_Witness ==
    /\ Ended /\ cur \in DOMAIN node_lookup
    /\ node_lookup[cur].output = OutSub1
    /\ Len(node_lookup[cur].child_ids) = 1
    /\ node_lookup[cur].child_ids[1] \in DOMAIN node_lookup
    /\ node_lookup[node_lookup[cur].child_ids[1]].task_description = "a"

\* C25: an execute invokes summarize_node exactly once if the node ends
\* completed with no children, and not at all if it ends failed or completed
\* with a child; it never executes the children it created, which stay
\* pending. Stated of the step that ends the retry loop.
C25_LeafHookAndPendingChildren ==
    [][(pc = "generate" /\ pc' # "generate") =>
          /\ summarized' = (IF /\ node_lookup'[cur].status = STATUS_COMPLETED
                               /\ node_lookup'[cur].child_ids = <<>>
                            THEN 1 ELSE 0)
          /\ (pc' = "summarize") = (summarized' = 1)
          /\ cur' = cur
          /\ \A c \in Range(node_lookup'[cur].child_ids) :
                c \in DOMAIN node_lookup' /\ node_lookup'[c].status = STATUS_PENDING]_vars

\* a run has ended with the root completed and two pending children, and
\* summarize_node was not called
C25_Witness ==
    /\ Did("run") /\ pc = "idle" /\ cur = root_node_id /\ cur \in DOMAIN node_lookup
    /\ node_lookup[cur].status = STATUS_COMPLETED
    /\ Len(node_lookup[cur].child_ids) = 2
    /\ summarized = 0
    /\ execution_count = 0

\* attempt i of the current execute passed its text to process_llm_output,
\* which ended in its except branch
ProcessFailedIn(i) == trace[i].kind \in {"passed", "constraint"} /\ ~trace[i].processed

\* C26: a failure inside process_llm_output is not retried and does not
\* propagate: execute does not raise, makes no further gateway call for the
\* node after the attempt whose processing failed, and the node ends failed
\* with a message describing the exception. In the code check_constraints
\* still runs after the failure, and a violated constraint makes the loop
\* continue.
C26_ProcessFailureNotRetried ==
    /\ \A i \in 1..Len(trace) : ProcessFailedIn(i) => i = Len(trace)
    /\ (Ended /\ cur \in DOMAIN node_lookup /\ trace # <<>> /\ ProcessFailedIn(Len(trace))) =>
          /\ (op.name \in {"run", "execute", "regenerate"} => ~raised)
          /\ node_lookup[cur].status = STATUS_FAILED
          /\ node_lookup[cur].error_message.text = "Error processing LLM output: "

\* the attempts of the current execute, other than the MAX_RETRIES-th, that
\* ended in one of kinds
EarlierAttemptsEnding(kinds) ==
    {i \in 1..Len(trace) : trace[i].kind \in kinds /\ i < MAX_RETRIES}

\* C27 as stated: during execute the retry delay is waited exactly once
\* after each attempt in which the gateway threw, except after the
\* MAX_RETRIES-th, and never after an attempt in which the gateway returned.
\* The code also waits after an attempt in which the gateway returned an
\* empty or blank text.
C27_WaitsAfterThrowsOnly ==
    sleeps = Cardinality(EarlierAttemptsEnding({"throw"}))

\* C27 amended: the retry delay is waited exactly once after each attempt in
\* which the gateway threw or returned an empty or blank text, except after
\* the MAX_RETRIES-th attempt, and never after an attempt whose text was
\* processed; a gateway that always throws gives exactly 2 waits.
C27_WaitsAfterFailedCalls ==
    /\ sleeps = Cardinality(EarlierAttemptsEnding({"throw", "empty"}))
    /\ (Ended /\ Len(trace) = MAX_RETRIES /\ \A i \in 1..Len(trace) : trace[i].kind = "throw")
          => sleeps = 2

\* three attempts: a blank text (a wait), a text that violated a constraint
\* (no wait), a throw in the last attempt (no wait)
C27_Witness ==
    /\ Ended /\ Len(trace) = 3 /\ sleeps = 1
    /\ trace[1].kind = "empty" /\ trace[2].kind = "constraint" /\ trace[3].kind = "throw"

RECURSIVE LackedBy(_, _)
\* the elements of list that old lacks, in the order of list, each once
LackedBy(list, old) ==
    IF list = <<>> THEN <<>>
    ELSE IF Contains(old, Head(list)) THEN LackedBy(Tail(list), old)
    ELSE <<Head(list)>> \o LackedBy(Tail(list), Append(old, Head(list)))

\* the children of p that are in the node table
ExistingChildren(p) ==
    IF p \in DOMAIN node_lookup
    THEN {c \in Range(node_lookup[p].child_ids) : c \in DOMAIN node_lookup}
    ELSE {}

\* C28: propagate_constraints(p) turns the list of each existing child of p
\* into its previous list followed by the constraints of p it lacked, in
\* p's order; it changes neither p's list nor the list of a node that is no
\* child, creates no tracker entry for an id that is not in the node table,
\* and a second identical call changes nothing. The code walks p.child_ids,
\* which still holds the ids of deleted children, and gives them entries.
C28_PropagateToExistingChildren ==
    [][(op'.name = "propagate_constraints" /\ ops' = ops + 1) =>
          /\ \A c \in ExistingChildren(op'.node) :
                get_constraints(constraints', c) =
                    get_constraints(constraints, c) \o
                        LackedBy(get_constraints(constraints, op'.node), get_constraints(constraints, c))
          /\ \A id \in DOMAIN constraints \ ExistingChildren(op'.node) :
                id \in DOMAIN constraints' /\ constraints'[id] = constraints[id]
          /\ \A id \in DOMAIN constraints' \ DOMAIN constraints : id \in DOMAIN node_lookup
          /\ propagate_constraints(constraints', node_lookup, op'.node) = constraints']_vars

\* C29: every node in the node table has a dependency-graph entry that is
\* duplicate-free and equals [parent_id] (the empty list for the root);
\* track_dependencies is idempotent (a repeated call with the same pair
\* changes nothing) and a None parent adds no element.
C29_DependenciesAreTheParent ==
    /\ \A id \in DOMAIN node_lookup :
          /\ id \in DOMAIN dependency_graph
          /\ NoDup(dependency_graph[id])
          /\ dependency_graph[id] =
                (IF node_lookup[id].parent_id = NoId THEN <<>> ELSE <<node_lookup[id].parent_id>>)
    /\ \A p \in {NoId} \cup NodeIds, id \in NodeIds :
          track_dependencies(track_dependencies(dependency_graph, p, id), p, id)
              = track_dependencies(dependency_graph, p, id)
    /\ \A id \in NodeIds :
          track_dependencies(dependency_graph, NoId, id)[id] =
              (IF id \in DOMAIN dependency_graph THEN dependency_graph[id] ELSE <<>>)

\* after a deletion the table holds the root, a child and a grandchild,
\* each with its entry
C29_Witness ==
    /\ Did("delete") /\ Cardinality(DOMAIN node_lookup) = 3
    /\ \E id \in DOMAIN node_lookup :
          /\ node_lookup[id].depth = 2
          /\ dependency_graph[id] = <<node_lookup[id].parent_id>>

\* the built-in checkers called with the values of the constraint texts
BuiltInCalls ==
    {parse_constraint(c) : c \in {CFormatJson, CContainsX, CMax5, CMaxBad, CCodeTrue,
                                  <<"contains", ":", "a">>, <<"max_length", ":", "10">>}}

\* the checker of constraint c applied to the node
Verdict30(c, node) == RunChecker(c.type, c.value, node)

\* the types whose message carries the constraint's value
ValueBearing == {<<"contains">>, <<"max_length">>}

\* C30: a built-in checker (format, contains, max_length, code) that returns
\* false leaves the node failed with a non-empty error message that names
\* the violated constraint: the messages of two different constraint types,
\* or of two different values of contains or max_length, differ.  A checker
\* that returns true changes neither the node's status nor its error
\* message nor its output.  No checker changes the output.
C30_CheckersFailOrLeaveAlone ==
    \A id \in DOMAIN node_lookup :
        \A c \in BuiltInCalls :
            /\ c.type \in ConstraintCheckers
            /\ Verdict30(c, node_lookup[id]).ok =>
                  /\ Verdict30(c, node_lookup[id]).node.status = node_lookup[id].status
                  /\ Verdict30(c, node_lookup[id]).node.error_message = node_lookup[id].error_message
                  /\ Verdict30(c, node_lookup[id]).node.output = node_lookup[id].output
            /\ ~Verdict30(c, node_lookup[id]).ok =>
                  /\ Verdict30(c, node_lookup[id]).node.status = STATUS_FAILED
                  /\ Verdict30(c, node_lookup[id]).node.error_message # NoError
                  /\ Verdict30(c, node_lookup[id]).node.error_message.text # ""
                  /\ Verdict30(c, node_lookup[id]).node.output = node_lookup[id].output
                  /\ \A d \in BuiltInCalls :
                        (/\ ~Verdict30(d, node_lookup[id]).ok
                         /\ Verdict30(d, node_lookup[id]).node.error_message
                               = Verdict30(c, node_lookup[id]).node.error_message)
                        => /\ d.type = c.type
                           /\ c.type \in ValueBearing => d.value = c.value

\* check_constraints has run on the current node, its first checker returned
\* true and its second returned false, and the node is left failed with the
\* second checker's message; on the output it holds, built-in checkers of
\* both verdicts exist
C30_Witness ==
    /\ cur \in DOMAIN node_lookup /\ checked.node = cur
    /\ checked.invoked = <<1, 2>> /\ ~checked.ok
    /\ node_lookup[cur].status = STATUS_FAILED
    /\ node_lookup[cur].error_message = checked.error_message
    /\ node_lookup[cur].error_message # NoError
    /\ \E c \in BuiltInCalls : Verdict30(c, node_lookup[cur]).ok
    /\ \E c \in BuiltInCalls : ~Verdict30(c, node_lookup[cur]).ok

\* summarize_node, or the compression it has triggered, is waiting for the
\* gateway's answer
Summarizing == pc \in {"summarize", "compress"}

\* C31: the global context and the execution counter are written only by
\* summarize_node (with the compression it triggers) and by load_session.
\* summarize_node runs only for a node that execute has completed and that
\* has no children, and it leaves the node table alone, so an execute that
\* ends failed or leaves the node with children, a delete, a tracker edit,
\* build_prompt and save_session leave both as they were.
C31_ContextWrittenBySummaryAndLoad ==
    [][/\ (global_context' # global_context \/ execution_count' # execution_count) =>
             (Summarizing \/ op'.name = "load")
       /\ Summarizing =>
             (/\ cur \in DOMAIN node_lookup
              /\ node_lookup[cur].status = STATUS_COMPLETED
              /\ node_lookup[cur].child_ids = <<>>
              /\ node_lookup' = node_lookup
              /\ cur' = cur)]_vars

\* after a leaf completion has written the context and the counter, a later
\* execute of a node has ended failed
C31_Witness ==
    /\ pc = "idle" /\ op.name \in {"execute", "regenerate"}
    /\ cur \in DOMAIN node_lookup
    /\ node_lookup[cur].status = STATUS_FAILED
    /\ trace # <<>>
    /\ execution_count > 0
    /\ Len(global_context) > Len(InitialContext)

\* constraint lists holding constraints whose type has no registered checker
UnknownLists ==
    {<<CStyle>>, <<CStyle, <<"tone">>>>, <<CStyle, CFormatJson>>, <<CMax5, CStyle, CContainsX>>,
     <<<<"Format", ":", "json">>, CCodeTrue>>}

\* list without the constraints whose type has no registered checker
KnownOf(list) == SelectSeq(list, LAMBDA c : parse_constraint(c).type \in ConstraintCheckers)

\* the verdict and the node that the loop of check_constraints leaves
Outcome(list, node) ==
    [ok |-> CheckFrom(list, 1, node, <<>>).ok, node |-> CheckFrom(list, 1, node, <<>>).node]

\* C32: a constraint whose type has no registered checker never fails a
\* node.  check_constraints invokes no checker for it, and its verdict and
\* the node it leaves are those of the same list without that constraint:
\* a list of such constraints only is satisfied with the node untouched,
\* and the constraints after it are evaluated.
C32_UnknownTypeSkipped ==
    /\ checked.node # NoId => Range(checked.invoked) \subseteq RegisteredIn(checked.list)
    /\ \A id \in DOMAIN node_lookup :
          \A list \in UnknownLists :
              /\ KnownOf(list) # list
              /\ Outcome(list, node_lookup[id]) = Outcome(KnownOf(list), node_lookup[id])
              /\ KnownOf(list) = <<>> =>
                    Outcome(list, node_lookup[id]) = [ok |-> TRUE, node |-> node_lookup[id]]

\* check_constraints has run on a list whose first constraint has no checker
\* and has gone on to the second, whose checker failed the node
C32_Witness ==
    /\ cur \in DOMAIN node_lookup /\ checked.node = cur
    /\ checked.list = <<CStyle, CFormatJson>>
    /\ checked.invoked = <<2>>
    /\ ~checked.ok
    /\ node_lookup[cur].status = STATUS_FAILED
    /\ node_lookup[cur].error_message = checked.error_message

\* the text of a constraint before its first colon (all of it without one)
TypePart(c) == IF Contains(c, ":") THEN SubSeq(c, 1, FirstColon(c) - 1) ELSE c

\* the text of a constraint after its first colon (empty without one)
ValuePart(c) == IF Contains(c, ":") THEN SubSeq(c, FirstColon(c) + 1, Len(c)) ELSE <<>>

\* C33: a constraint is split on its first colon only, and type and value
\* are trimmed of surrounding blanks; without a colon the type is the
\* trimmed whole string and the value is empty, so that a bare "code"
\* selects the code checker.  Stated for the constraints check_constraints
\* has parsed.
C33_ParseConstraintTrims ==
    checked.node # NoId =>
        \A i \in 1..Len(checked.list) :
            /\ parse_constraint(checked.list[i]).type = Strip(TypePart(checked.list[i]))
            /\ parse_constraint(checked.list[i]).value = Strip(ValuePart(checked.list[i]))
            /\ Strip(checked.list[i]) = <<"code">> => i \in RegisteredIn(checked.list)

\* check_constraints has run on a list of one max_length constraint
MaxLengthChecked ==
    /\ checked.node # NoId
    /\ Len(checked.list) = 1
    /\ parse_constraint(checked.list[1]).type = <<"max_length">>

\* the value of the max_length constraint that was checked
CheckedValue == parse_constraint(checked.list[1]).value

\* C34: the max_length:<n> checker passes exactly when the length of the
\* output is at most the integer n, so that an output of length n passes
\* and one of length n + 1 fails; a value that is no integer fails the
\* check.  A failed check leaves the node failed.
C34_MaxLengthBoundary ==
    MaxLengthChecked =>
        /\ IsNumeral(CheckedValue) =>
              (checked.ok <=> OutputAttr[checked.output].len <= Numerals[CheckedValue[1]])
        /\ ~IsNumeral(CheckedValue) => ~checked.ok
        /\ (~checked.ok /\ checked.node \in DOMAIN node_lookup /\ checked.node = cur /\ pc = "idle") =>
              node_lookup[cur].status = STATUS_FAILED
        /\ \A id \in DOMAIN node_lookup :
              \A v \in DOMAIN Numerals :
                  /\ OutputAttr[node_lookup[id].output].len = Numerals[v] =>
                        _check_max_length(<<v>>, node_lookup[id]).ok
                  /\ OutputAttr[node_lookup[id].output].len = Numerals[v] + 1 =>
                        /\ ~_check_max_length(<<v>>, node_lookup[id]).ok
                        /\ _check_max_length(<<v>>, node_lookup[id]).node.status = STATUS_FAILED

\* max_length:1 has been checked against an output of two characters and
\* has failed the node, whose output max_length:1 rejects while a text of
\* one character would pass
C34_Witness ==
    /\ MaxLengthChecked /\ CheckedValue = <<"1">>
    /\ checked.output = OutRaw /\ ~checked.ok
    /\ cur \in DOMAIN node_lookup /\ checked.node = cur /\ pc = "idle"
    /\ node_lookup[cur].status = STATUS_FAILED
    /\ node_lookup[cur].error_message.n = 1
    /\ _check_max_length(<<"1">>, [node_lookup[cur] EXCEPT !.output = OutX]).ok

\* the nodes of the table whose status is running
RunningNodes == {id \in DOMAIN node_lookup : node_lookup[id].status = STATUS_RUNNING}

\* C35: at most one node has the status running at any time, it is the node
\* being executed, and no node is left running between two operations: an
\* execute (also one started by run, regenerate or select) finishes for its
\* node before another node's execute starts.
C35_OneRunningNode ==
    /\ Cardinality(RunningNodes) <= 1
    /\ RunningNodes \subseteq {cur}
    /\ pc = "idle" => RunningNodes = {}

\* C36: child links never dangle.  Every id in the child_ids of a node of the
\* table is a key of the table and names a node whose parent_id is that
\* node; in particular, after the delete of a node that is not the root,
\* the child_ids of its surviving parent no longer hold the deleted id.
C36_ChildLinksNeverDangle ==
    \A id \in DOMAIN node_lookup :
        \A i \in 1..Len(node_lookup[id].child_ids) :
            /\ node_lookup[id].child_ids[i] \in DOMAIN node_lookup
            /\ node_lookup[node_lookup[id].child_ids[i]].parent_id = id

RECURSIVE ChildrenSince(_)
\* the number of nodes created by the attempts i, i + 1, ... of the trace
ChildrenSince(i) == IF i > Len(trace) THEN 0 ELSE trace[i].children + ChildrenSince(i + 1)

\* the ids of the nodes created while attempt i of the current execute was
\* processed
CreatedIn(i) == {id \in NodeIds : next_id - ChildrenSince(i) <= id /\ id < next_id - ChildrenSince(i + 1)}

\* the current call is an execute whose attempts the trace holds
InExecute == op.name \in {"run", "execute", "regenerate", "select"} /\ trace # <<>>

\* C37: the children an execute call adds to its node are the valid subtasks
\* of one single gateway response.  The children created while processing
\* an attempt whose output a constraint check then rejected are neither in
\* the node's child_ids nor in the node table once a later attempt of the
\* same call has been made.
C37_RejectedAttemptLeavesNoChildren ==
    (InExecute /\ cur \in DOMAIN node_lookup) =>
        \A i \in 1..(Len(trace) - 1) :
            trace[i].kind = "constraint" =>
                /\ CreatedIn(i) \cap DOMAIN node_lookup = {}
                /\ CreatedIn(i) \cap Range(node_lookup[cur].child_ids) = {}

====
